---- MODULE Spec2Model ----
(***************************************************************************)
(* Plan / Execute / Synthesise workflow of the Orin CLI (cli.ts) together  *)
(* with the three tool executors it dispatches to (web-search.ts,          *)
(* fetch-url.ts, generate-haiku.ts) and the planner schema (planner.js).   *)
(* Every await of the code is one step of the model; the outcome of an     *)
(* external call (model, provider, engine) is chosen nondeterministically. *)
(***************************************************************************)
EXTENDS Integers, Sequences, FiniteSets, TLC

\* ---------------------------------------------------------------- bounds
MaxTools == 2
MaxArgs == 3
MaxInvocations == 3
SessionMaxTools == 1
SessionMaxArgs == 1
MaxLines == 3
MaxRuns == 2

\* ---------------------------------------------------------------- domains
ToolIds == {"webSearch", "fetchUrl", "generateHaiku"}
Args == {"a", " "}
Queries == {"q1"}
ModelErrors == {"e1"}
ProviderErrors == {"p1"}
SearchSizes == {4}
ContentLengths == {2001}
HaikuTexts == {"haiku"}
Answers == {"answer"}
TopResults == 3
MinResults == 3
MaxResults == 5
DefaultResults == 5
MaxContent == 2000

NoErr == "<none>"
Absent == "<absent>"
NoObjectError == "NoObjectGenerated"
CleanupError == "cleanupFailed"
FallbackHaiku == "AI dreams unfold here / Words dance like cherry blossoms / Spring code gently flows"

RECURSIVE SeqsUpTo(_, _)
SeqsUpTo(S, n) ==
  IF n = 0 THEN {<<>>}
  ELSE LET shorter == SeqsUpTo(S, n - 1)
       IN shorter \cup {Append(s, x) : s \in {t \in shorter : Len(t) = n - 1}, x \in S}

\* ---------------------------------------------------------------- planner schema
\* A value found under parameters[tool] in the model's response.
AbsentParam == [kind |-> "absent", items |-> <<>>]
ArrayParam(s) == [kind |-> "array", items |-> s]
NotArrayParam == [kind |-> "notArray", items |-> <<>>]
NotStringsParam == [kind |-> "arrayOfOther", items |-> <<>>]

ParamLists == {ArrayParam(s) : s \in SeqsUpTo(Args, MaxArgs)} \cup {AbsentParam}

PlanFields == {"reasoning", "tools", "parameters", "expectedWorkflow"}

MkRaw(has, reasoning, tools, parameters) ==
  [has |-> has, reasoning |-> reasoning, tools |-> tools,
   parameters |-> parameters, expectedWorkflow |-> "w"]

ArgCount(p) == Len(p["webSearch"].items) + Len(p["fetchUrl"].items) + Len(p["generateHaiku"].items)

\* the number of (tool, argument) pairs the tools t have under the parameters p
RECURSIVE InvocationCount(_, _, _)
InvocationCount(t, p, i) ==
  IF i > Len(t) THEN 0 ELSE Len(p[t[i]].items) + InvocationCount(t, p, i + 1)

\* Responses that conform to plannerSchema: at most MaxTools tools, at most MaxArgs
\* arguments listed in all, at most MaxInvocations (tool, argument) pairs to run.
PlanSpace ==
  {r \in {MkRaw(PlanFields, "r", t, p) :
           t \in SeqsUpTo(ToolIds, MaxTools),
           p \in {f \in [ToolIds -> ParamLists] : ArgCount(f) <= MaxArgs}} :
     InvocationCount(r.tools, r.parameters, 1) <= MaxInvocations}

NoParams == [t \in ToolIds |-> AbsentParam]

\* A few further responses: an empty reasoning string, and the non-conformant
\* shapes (unknown tool, missing field, parameters[tool] not an array or an array with
\* an element that is not a string).
OddResponses ==
  { MkRaw(PlanFields, "", <<"generateHaiku">>, [NoParams EXCEPT !["generateHaiku"] = ArrayParam(<<"a">>)]),
    MkRaw(PlanFields, "r", <<"sendEmail">>, NoParams),
    MkRaw(PlanFields \ {"reasoning"}, "", <<"webSearch">>, NoParams),
    MkRaw(PlanFields \ {"expectedWorkflow"}, "r", <<"webSearch">>, NoParams),
    MkRaw(PlanFields \ {"tools"}, "r", <<>>, NoParams),
    MkRaw(PlanFields \ {"parameters"}, "r", <<>>, NoParams),
    MkRaw(PlanFields, "r", <<"webSearch">>, [NoParams EXCEPT !["webSearch"] = NotArrayParam]),
    MkRaw(PlanFields, "r", <<"fetchUrl">>, [NoParams EXCEPT !["fetchUrl"] = NotStringsParam]) }

RawResponses == PlanSpace \cup OddResponses

\* plannerSchema with a value that is not an array of strings taken as if it were one
plannerSchema_Coerce(raw) ==
  /\ raw.has = PlanFields
  /\ \A i \in 1..Len(raw.tools) : raw.tools[i] \in ToolIds

plannerSchema(raw) ==
  /\ raw.has = PlanFields
  /\ \A i \in 1..Len(raw.tools) : raw.tools[i] \in ToolIds
  /\ \A t \in ToolIds : raw.parameters[t].kind \in {"absent", "array"}

NoPlan == MkRaw({}, "", <<>>, NoParams)

\* ---------------------------------------------------------------- state
VARIABLES
  pc,            \* where the process is: Idle (prompt), the awaits of agenticWorkflow, Complete, Error, Exited
  userQuery,     \* argument of agenticWorkflow
  raw,           \* the planning model's response while generateObject validates it
  plan,          \* plan.object
  ti,            \* index in plan.object.tools of the outer for loop
  ai,            \* index in parameters of the inner for loop
  toolResults,   \* the toolResults array
  fetched,       \* fetchUrl: outcome of engine.fetchHTML held while the finally block runs
  synthesisPrompt, \* what the synthesis request embeds
  returned,      \* value agenticWorkflow resolved with
  thrown,        \* error agenticWorkflow rejected with, as processQuery catches it
  printed,       \* what processQuery printed for the query
  exitCode,      \* process exit status, -1 while the process runs
  planCalls,     \* generateObject calls of this run
  synthCalls,    \* generateText (synthesis) calls of this run
  invocations,   \* tool executors called in this run
  enginesCreated, \* HybridEngine instances constructed in this run
  cleanupCalls,  \* engine.cleanup calls of this run
  failedAt,      \* stage whose failure ended the run
  cancelledIn,   \* pc at which SIGINT was handled
  settled,       \* how the last external tool call settled, and the index of its invocation
  seen,          \* session history: the (error caught by processQuery, failing stage) pairs so far
  lines,         \* readline's line events so far: how many, and the last line
  runs,          \* one record per call of agenticWorkflow by the line handler, in order of start
  planRequest,   \* the prompt of the planning request (generateObject) of this run
  env,           \* the environment of the process: EXA_API_KEY, and the date new Date() gives
  ws,            \* a call of webSearch(query, options) made directly: where it is and how it went
  users,         \* user_service: the users array
  nextId,        \* user_service: the nextId counter
  calls,         \* user_service calls made so far; the time new Date() gives in the next one
  reply          \* the last user_service call: its operation, its request and what it returned

vars == <<pc, userQuery, raw, plan, ti, ai, toolResults, fetched, synthesisPrompt,
          returned, thrown, printed, exitCode, planCalls, synthCalls, invocations,
          enginesCreated, cleanupCalls, failedAt, cancelledIn, settled, seen, lines, runs,
          planRequest, env, ws, users, nextId, calls, reply>>

\* the state of the line handlers when several are in flight at once
cliVars == <<lines, runs>>

\* the environment, and the state of the exported functions when called on their own
userVars == <<users, nextId, calls, reply>>
libVars == <<env, ws, userVars>>

\* what a single serial run of the CLI leaves alone
outerVars == <<cliVars, libVars>>

NoPayload == [items |-> <<>>, content |-> [from |-> 0, to |-> 0], contentLength |-> 0, text |-> ""]
NoFetch == [ok |-> FALSE, contentLength |-> 0, error |-> NoErr]
NoPrompt == [reasoning |-> "", expectedWorkflow |-> "", userQuery |-> "", toolResults |-> <<>>]
NoReturn == [plan |-> NoPlan, toolResults |-> <<>>, response |-> Absent]
NoCall == [index |-> 0, tool |-> "", arg |-> "", failed |-> FALSE, message |-> NoErr, provided |-> 0, returned |-> 0, requested |-> 0]

Min(a, b) == IF a < b THEN a ELSE b
Max(a, b) == IF a > b THEN a ELSE b

\* toolResults.push({tool, <arg>, result})
SuccessResult(tool, arg, payload) ==
  [tool |-> tool, arg |-> arg, has |-> {"result"}, result |-> payload, error |-> Absent]

\* ErrorResult with the message of the caught error lost
ErrorResult_NoMessage(tool, arg, message) ==
  [tool |-> tool, arg |-> arg, has |-> {"error"}, result |-> NoPayload, error |-> "unknown error"]

\* toolResults.push({tool, <arg>, error: error.message})
ErrorResult(tool, arg, message) ==
  [tool |-> tool, arg |-> arg, has |-> {"error"}, result |-> NoPayload, error |-> message]

\* SearchPayload with the last items of the list kept instead of the first
SearchPayload_Last(n) ==
  [NoPayload EXCEPT !.items = [i \in 1..Min(n, TopResults) |-> n - Min(n, TopResults) + i]]

\* result.results.slice(0, 3) of a provider list of n items, items named 1..n in provider order
\* SearchPayload with every item webSearch returned kept
SearchPayload_All(n) ==
  [NoPayload EXCEPT !.items = [i \in 1..n |-> i]]

\* result.results.slice(0, 3) of the n items webSearch returned
SearchPayload(n) ==
  [NoPayload EXCEPT !.items = [i \in 1..Min(n, TopResults) |-> i]]

\* s.substring(a, b) of a string s of n characters, as the positions it covers:
\* both indices are clamped to 0..n and swapped when a > b; characters from .. to-1.
Substring(n, a, b) ==
  LET x == Min(Max(a, 0), n)
      y == Min(Max(b, 0), n)
  IN [from |-> Min(x, y), to |-> Max(x, y)]

\* FetchPayload with the last MaxContent characters kept instead of the first
FetchPayload_Tail(n) ==
  [NoPayload EXCEPT !.content = Substring(n, n - MaxContent, n), !.contentLength = n]

\* { content: content.substring(0, 2000), contentLength: content.length }
FetchPayload(n) ==
  [NoPayload EXCEPT !.content = Substring(n, 0, MaxContent), !.contentLength = n]

HaikuPayload(text) == [NoPayload EXCEPT !.text = text]

\* webSearch's catch block: an Error is rethrown as a new Error with a prefixed message
\* options?.numResults when webSearch is called without options, or with numResults 0
NoOption == 0

\* Math.min(Math.max(parsedOptions?.numResults || 5, 3), 5): the number of items asked for
numResults(opt) ==
  Min(Max(IF opt = NoOption THEN DefaultResults ELSE opt, MinResults), MaxResults)

\* the number of items in the results webSearch returns for a provider response of n
\* items: response.results.map(...) keeps every item
webSearchResults(n) == Len([i \in 1..n |-> i])

WebSearchFailed(message) == "Web search failed: " \o message

\* the catch block for a ZodError: the messages of its issues after a prefix
ValidationError(issue) == "Validation error: " \o issue

\* process.env["EXA_API_KEY"] when the variable is not set (undefined)
Unset == "<undefined>"
ApiKeys == {Unset, "", "key"}

\* ExaApiKeySchema with any defined value accepted, the empty string included
ExaApiKeySchema_AnyString(v) == v # Unset

\* ExaApiKeySchema = z.string().min(1, "EXA_API_KEY is required"): whether v parses
ExaApiKeySchema(v) == v # Unset /\ v # ""

\* the message of the issue when v does not parse
ExaApiKeyIssue(v) == IF v = Unset THEN "Required" ELSE "EXA_API_KEY is required"

\* the optional second argument of webSearch: not given, or an object that has a
\* numResults field or not
MinOption == 1
MaxOption == 100
SchemaDefault == 5
NoOptions == [given |-> FALSE, has |-> {}, numResults |-> 0]
OptionsInputs ==
  {NoOptions, [given |-> TRUE, has |-> {}, numResults |-> 0]}
    \cup {[given |-> TRUE, has |-> {"numResults"}, numResults |-> n] : n \in (MinOption - 1)..(MaxOption + 1)}

\* SearchOptionsSchema.parse(o): numResults is z.number().min(1).max(100).default(5)
SearchOptionsSchema(o) ==
  IF "numResults" \notin o.has THEN [ok |-> TRUE, numResults |-> SchemaDefault, issue |-> NoErr]
  ELSE IF o.numResults < MinOption THEN [ok |-> FALSE, numResults |-> 0, issue |-> "Number must be greater than or equal to 1"]
  ELSE IF o.numResults > MaxOption THEN [ok |-> FALSE, numResults |-> 0, issue |-> "Number must be less than or equal to 100"]
  ELSE [ok |-> TRUE, numResults |-> o.numResults, issue |-> NoErr]

\* webSearch(query, options) up to its provider call, with EXA_API_KEY = key: the
\* message it throws with (the one its catch block rethrows), NoErr when it goes on
\* to the provider call. query.trim() is empty only for the blank arguments.
webSearchError(query, options, key) ==
  IF query \in {"", " "} THEN WebSearchFailed("Search query cannot be empty")
  ELSE IF ~ExaApiKeySchema(key) THEN ValidationError(ExaApiKeyIssue(key))
  ELSE IF options.given /\ ~SearchOptionsSchema(options).ok
    THEN ValidationError(SearchOptionsSchema(options).issue)
  ELSE NoErr

\* webSearchStart with the request sized by the option as given (no Math.min/Math.max)
webSearchStart_Unclamped(query, options, key) ==
  IF webSearchError(query, options, key) # NoErr
    THEN [threw |-> TRUE, message |-> webSearchError(query, options, key), requested |-> 0]
  ELSE [threw |-> FALSE, message |-> NoErr,
        requested |-> IF options.given THEN SearchOptionsSchema(options).numResults ELSE DefaultResults]

\* How webSearch(query, options) gets to its provider call: it throws, or it goes on to
\* ask the provider for `requested` items.
webSearchStart(query, options, key) ==
  IF webSearchError(query, options, key) # NoErr
    THEN [threw |-> TRUE, message |-> webSearchError(query, options, key), requested |-> 0]
  ELSE [threw |-> FALSE, message |-> NoErr,
        requested |-> numResults(IF options.given THEN SearchOptionsSchema(options).numResults
                                 ELSE NoOption)]

\* webSearch(query) as the dispatcher calls it, before the provider call: the message
\* it throws, NoErr when it goes on to call the provider
WebSearchRejects(query) == webSearchError(query, NoOptions, env.EXA_API_KEY)

\* a direct call of webSearch: none made yet
NoSearch == [pc |-> "none", query |-> "", options |-> NoOptions, requested |-> 0,
             providerCalls |-> 0, returned |-> 0, message |-> NoErr]

\* the prompt before a query was entered
NoRequest == <<>>

\* the dates new Date().toLocaleDateString("en-GB", ...) can give
Dates == {"4 November 2026", "5 November 2026"}

\* the queries that mention "latest", "recent", "today", "current"
TemporalQueries == {"latest news"}
QueriesWide == Queries \cup TemporalQueries \cup {"a haiku"}

\* plannerPrompt with the date embedded only for a query with temporal language
plannerPrompt_WhenTemporal(q, today) ==
  IF q \in TemporalQueries
    THEN <<"planner: USER QUERY", q, "TOOLS, RULES: include", today, "EXAMPLES", today, today, "FORMAT">>
    ELSE <<"planner: USER QUERY", q, "TOOLS, RULES: include", "EXAMPLES", "FORMAT">>

\* plannerPrompt(userQuery): the template literal as the sequence of its fixed parts
\* and its substitutions: ${userQuery} once, ${today} in rule 1 and in two examples
plannerPrompt(q, today) ==
  <<"planner: USER QUERY", q, "TOOLS, RULES: include", today, "EXAMPLES", today, today, "FORMAT">>

\* generateHaiku without its catch block: the failure of the model call is rethrown
generateHaiku_Rethrow(ok, text, e) ==
  IF ok THEN [threw |-> FALSE, text |-> text, message |-> NoErr]
  ELSE [threw |-> TRUE, text |-> "", message |-> e]

\* How generateHaiku settles: with the model's text, or, the model call having
\* failed with message e, with the placeholder haiku of its catch block
generateHaiku(ok, text, e) ==
  IF ok THEN [threw |-> FALSE, text |-> text, message |-> NoErr]
  ELSE [threw |-> FALSE, text |-> FallbackHaiku, message |-> NoErr]

\* ---------------------------------------------------------------- dispatch loop
\* `parameters` is truthy: present and an array (an empty array is truthy too)
Truthy(p) == p.kind = "array"

ParamsOf(pl, i) == pl.parameters[pl.tools[i]]

\* NextPos with an argument equal to its predecessor in the list passed over (implicit dedup)
RECURSIVE NextPos_Dedup(_, _, _)
NextPos_Dedup(pl, i, j) ==
  IF i > Len(pl.tools) THEN <<i, 1>>
  ELSE IF Truthy(ParamsOf(pl, i)) /\ j <= Len(ParamsOf(pl, i).items)
    THEN IF j > 1 /\ ParamsOf(pl, i).items[j] = ParamsOf(pl, i).items[j - 1]
           THEN NextPos_Dedup(pl, i, j + 1)
           ELSE <<i, j>>
  ELSE NextPos_Dedup(pl, i + 1, 1)

\* NextPos with the loop over the tools left (break) at a tool without a parameters entry
RECURSIVE NextPos_StopAtMissing(_, _, _)
NextPos_StopAtMissing(pl, i, j) ==
  IF i > Len(pl.tools) THEN <<i, 1>>
  ELSE IF ~Truthy(ParamsOf(pl, i)) THEN <<Len(pl.tools) + 1, 1>>
  ELSE IF j <= Len(ParamsOf(pl, i).items) THEN <<i, j>>
  ELSE NextPos_StopAtMissing(pl, i + 1, 1)

\* NextPos with a tool listed again passed over (each tool dispatched once)
RECURSIVE NextPos_OncePerTool(_, _, _)
NextPos_OncePerTool(pl, i, j) ==
  IF i > Len(pl.tools) THEN <<i, 1>>
  ELSE IF /\ Truthy(ParamsOf(pl, i))
          /\ j <= Len(ParamsOf(pl, i).items)
          /\ \A n \in 1..(i - 1) : pl.tools[n] # pl.tools[i]
    THEN <<i, j>>
  ELSE NextPos_OncePerTool(pl, i + 1, 1)

\* The loop position of the next invocation at or after (i, j): tools whose
\* parameters are missing, and exhausted parameter lists, are passed over.
RECURSIVE NextPos(_, _, _)
NextPos(pl, i, j) ==
  IF i > Len(pl.tools) THEN <<i, 1>>
  ELSE IF Truthy(ParamsOf(pl, i)) /\ j <= Len(ParamsOf(pl, i).items) THEN <<i, j>>
  ELSE NextPos(pl, i + 1, 1)

\* user_service: a User that is none (no data in a failed Result)
NoUser == [id |-> <<>>, firstName |-> <<>>, lastName |-> <<>>, email |-> <<>>,
           colourPreference |-> <<>>, isActive |-> FALSE, createdAt |-> 0, updatedAt |-> 0]

\* a request object without any field
NoReq == [has |-> {}, id |-> <<>>, firstName |-> <<>>, lastName |-> <<>>, email |-> <<>>,
          colourPreference |-> <<>>, isActive |-> FALSE]

\* no user_service call was made yet
NoReply == [op |-> "none", request |-> NoReq, success |-> FALSE, error |-> NoErr, data |-> NoUser]

InitRun ==
  /\ pc = "Idle"
  /\ userQuery = ""
  /\ raw = NoPlan
  /\ plan = NoPlan
  /\ ti = 1
  /\ ai = 1
  /\ toolResults = <<>>
  /\ fetched = NoFetch
  /\ synthesisPrompt = NoPrompt
  /\ returned = NoReturn
  /\ thrown = NoErr
  /\ printed = "nothing"
  /\ exitCode = -1
  /\ planCalls = 0
  /\ synthCalls = 0
  /\ invocations = 0
  /\ enginesCreated = 0
  /\ cleanupCalls = 0
  /\ failedAt = "none"
  /\ cancelledIn = "none"
  /\ settled = NoCall
  /\ seen = {}
  /\ lines = [count |-> 0, last |-> <<>>]
  /\ runs = <<>>
  /\ planRequest = NoRequest
  /\ ws = NoSearch
  /\ users = <<>>
  /\ nextId = 1
  /\ calls = 0
  /\ reply = NoReply

\* The process starts at the prompt with EXA_API_KEY set.
Init == InitRun /\ env = [EXA_API_KEY |-> "key", today |-> "4 November 2026"]

\* ---------------------------------------------------------------- processQuery / planning
\* agenticWorkflow rejects with err, its locals are gone; processQuery's catch block
\* prints the message and returns true (the prompt comes back).
Fail(stage, err) ==
  /\ pc' = "Error"
  /\ thrown' = err
  /\ printed' = "error"
  /\ failedAt' = stage
  /\ raw' = NoPlan
  /\ plan' = NoPlan
  /\ ti' = 1
  /\ ai' = 1
  /\ toolResults' = <<>>
  /\ synthesisPrompt' = NoPrompt
  /\ settled' = NoCall

\* ProcessQuery with the results array shared by all runs (never emptied for a new query)
ProcessQuery_SharedResults(q) ==
  /\ pc \in {"Idle", "Complete", "Error"}
  /\ pc' = "Planning"
  /\ userQuery' = q
  /\ planRequest' = plannerPrompt(q, env.today)
  /\ raw' = NoPlan
  /\ plan' = NoPlan
  /\ ti' = 1
  /\ ai' = 1
  /\ fetched' = NoFetch
  /\ synthesisPrompt' = NoPrompt
  /\ returned' = NoReturn
  /\ thrown' = NoErr
  /\ printed' = "nothing"
  /\ planCalls' = 1
  /\ synthCalls' = 0
  /\ invocations' = 0
  /\ enginesCreated' = 0
  /\ cleanupCalls' = 0
  /\ failedAt' = "none"
  /\ settled' = NoCall
  /\ UNCHANGED <<toolResults, exitCode, cancelledIn, seen>>

\* A query line at the prompt: processQuery calls agenticWorkflow, which awaits generateObject.
ProcessQuery(q) ==
  /\ pc \in {"Idle", "Complete", "Error"}
  /\ pc' = "Planning"
  /\ userQuery' = q
  /\ planRequest' = plannerPrompt(q, env.today)
  /\ raw' = NoPlan
  /\ plan' = NoPlan
  /\ ti' = 1
  /\ ai' = 1
  /\ toolResults' = <<>>
  /\ fetched' = NoFetch
  /\ synthesisPrompt' = NoPrompt
  /\ returned' = NoReturn
  /\ thrown' = NoErr
  /\ printed' = "nothing"
  /\ planCalls' = 1
  /\ synthCalls' = 0
  /\ invocations' = 0
  /\ enginesCreated' = 0
  /\ cleanupCalls' = 0
  /\ failedAt' = "none"
  /\ settled' = NoCall
  /\ UNCHANGED <<exitCode, cancelledIn, seen>>

\* The planning model call cannot be completed.
PlanCallFails(e) ==
  /\ pc = "Planning"
  /\ Fail("Planning", e)
  /\ UNCHANGED <<userQuery, planRequest, fetched, returned,
                 exitCode, planCalls, synthCalls, invocations, enginesCreated, cleanupCalls, cancelledIn>>

\* PlanCallReturns with the answer taken as the plan without the schema check
PlanCallReturns_Unvalidated(r) ==
  /\ pc = "Planning"
  /\ pc' = "Dispatching"
  /\ plan' = r
  /\ UNCHANGED <<userQuery, planRequest, raw, ti, ai, toolResults, fetched, synthesisPrompt, returned, thrown,
                 printed, exitCode, planCalls, synthCalls, invocations, enginesCreated,
                 cleanupCalls, failedAt, cancelledIn, settled, seen>>

\* The planning model answers; generateObject goes on to check the answer against the schema.
PlanCallReturns(r) ==
  /\ pc = "Planning"
  /\ pc' = "Validating"
  /\ raw' = r
  /\ UNCHANGED <<userQuery, planRequest, plan, ti, ai, toolResults, fetched, synthesisPrompt, returned, thrown,
                 printed, exitCode, planCalls, synthCalls, invocations, enginesCreated,
                 cleanupCalls, failedAt, cancelledIn, settled, seen>>

\* generateObject resolves with the response as plan.object
ValidateOk ==
  /\ pc = "Validating"
  /\ plannerSchema(raw)
  /\ pc' = "Dispatching"
  /\ plan' = raw
  /\ raw' = NoPlan
  /\ toolResults' = <<>>
  /\ ti' = 1
  /\ ai' = 1
  /\ UNCHANGED <<userQuery, planRequest, fetched, synthesisPrompt, returned, thrown, printed, exitCode,
                 planCalls, synthCalls, invocations, enginesCreated, cleanupCalls, failedAt, cancelledIn, settled, seen>>

\* ValidateFails with the planning call made again instead of failing the run
ValidateFails_Retry ==
  /\ pc = "Validating"
  /\ ~plannerSchema(raw)
  /\ pc' = "Planning"
  /\ raw' = NoPlan
  /\ planCalls' = planCalls + 1
  /\ UNCHANGED <<userQuery, planRequest, plan, ti, ai, toolResults, fetched, synthesisPrompt, returned, thrown,
                 printed, exitCode, synthCalls, invocations, enginesCreated, cleanupCalls,
                 failedAt, cancelledIn, settled>>

\* generateObject rejects: the response does not conform to the schema
ValidateFails ==
  /\ pc = "Validating"
  /\ ~plannerSchema(raw)
  /\ Fail("Validating", NoObjectError)
  /\ UNCHANGED <<userQuery, planRequest, fetched, returned,
                 exitCode, planCalls, synthCalls, invocations, enginesCreated, cleanupCalls, cancelledIn>>

\* ---------------------------------------------------------------- dispatching
\* the await an executor stops at once it is called
AwaitOf(tool) ==
  CASE tool = "webSearch" -> "Search"
    [] tool = "fetchUrl" -> "FetchHTML"
    [] tool = "generateHaiku" -> "Haiku"

ArgAt(pl, pos) == ParamsOf(pl, pos[1]).items[pos[2]]

\* RunLoop with the tools that only `parameters` names visited after the listed ones
\* (one call each, recorded as failed)
RECURSIVE RunLoop_ByParameters(_, _, _, _, _)
RunLoop_ByParameters(pl, i, j, rs, inv) ==
  LET pos == NextPos(pl, i, j)
      left == {t \in ToolIds : /\ \A n \in 1..Len(pl.tools) : pl.tools[n] # t
                               /\ pl.parameters[t].items # <<>>
                               /\ \A k \in 1..Len(rs) : rs[k].tool # t}
  IN IF pos[1] > Len(pl.tools)
       THEN IF left = {}
              THEN [pc |-> "Synthesizing", ti |-> pos[1], ai |-> pos[2], toolResults |-> rs, invocations |-> inv]
              ELSE LET t == CHOOSE x \in left : TRUE
                   IN RunLoop_ByParameters(pl, pos[1], 1,
                        Append(rs, ErrorResult(t, pl.parameters[t].items[1], "not listed")), inv + 1)
     ELSE IF pl.tools[pos[1]] = "webSearch" /\ WebSearchRejects(ArgAt(pl, pos)) # NoErr
       THEN RunLoop_ByParameters(pl, pos[1], pos[2] + 1,
                    Append(rs, ErrorResult("webSearch", ArgAt(pl, pos), WebSearchRejects(ArgAt(pl, pos)))),
                    inv + 1)
     ELSE [pc |-> AwaitOf(pl.tools[pos[1]]), ti |-> pos[1], ai |-> pos[2], toolResults |-> rs,
           invocations |-> inv + 1]

\* RunLoop with the executor called for all remaining arguments of a list at once
\* (the calls not awaited one by one)
RECURSIVE RunLoop_AllAtOnce(_, _, _, _, _)
RunLoop_AllAtOnce(pl, i, j, rs, inv) ==
  LET pos == NextPos(pl, i, j)
  IN IF pos[1] > Len(pl.tools)
       THEN [pc |-> "Synthesizing", ti |-> pos[1], ai |-> pos[2], toolResults |-> rs, invocations |-> inv]
     ELSE IF pl.tools[pos[1]] = "webSearch" /\ WebSearchRejects(ArgAt(pl, pos)) # NoErr
       THEN RunLoop_AllAtOnce(pl, pos[1], pos[2] + 1,
                    Append(rs, ErrorResult("webSearch", ArgAt(pl, pos), WebSearchRejects(ArgAt(pl, pos)))),
                    inv + 1)
     ELSE [pc |-> AwaitOf(pl.tools[pos[1]]), ti |-> pos[1], ai |-> pos[2], toolResults |-> rs,
           invocations |-> IF pos[2] = 1 THEN inv + Len(ParamsOf(pl, pos[1]).items) ELSE inv]

\* The for loops run from position (i, j) with the results rs until the code next waits
\* for an external call: the await inside an executor, or, after the loops, the
\* generateText of the synthesis. A webSearch call that throws before its provider
\* call is caught and recorded on the way. inv counts the executors called.
RECURSIVE RunLoop(_, _, _, _, _)
RunLoop(pl, i, j, rs, inv) ==
  LET pos == NextPos(pl, i, j)
  IN IF pos[1] > Len(pl.tools)
       THEN [pc |-> "Synthesizing", ti |-> pos[1], ai |-> pos[2], toolResults |-> rs, invocations |-> inv]
     ELSE IF pl.tools[pos[1]] = "webSearch" /\ WebSearchRejects(ArgAt(pl, pos)) # NoErr
       THEN RunLoop(pl, pos[1], pos[2] + 1,
                    Append(rs, ErrorResult("webSearch", ArgAt(pl, pos), WebSearchRejects(ArgAt(pl, pos)))),
                    inv + 1)
     ELSE [pc |-> AwaitOf(pl.tools[pos[1]]), ti |-> pos[1], ai |-> pos[2], toolResults |-> rs,
           invocations |-> inv + 1]

\* Resume with the synthesis call left out when no result was gathered
Resume_SkipEmpty(i, j, rs) ==
  LET n == RunLoop(plan, i, j, rs, invocations)
      called == n.pc = "Synthesizing" /\ n.toolResults # <<>>
  IN /\ pc' = n.pc
     /\ ti' = n.ti
     /\ ai' = n.ai
     /\ toolResults' = n.toolResults
     /\ invocations' = n.invocations
     /\ enginesCreated' = IF n.pc = "FetchHTML" THEN enginesCreated + 1 ELSE enginesCreated
     /\ synthCalls' = IF called THEN synthCalls + 1 ELSE synthCalls
     /\ synthesisPrompt' =
          IF called
            THEN [reasoning |-> plan.reasoning, expectedWorkflow |-> plan.expectedWorkflow,
                  userQuery |-> userQuery, toolResults |-> n.toolResults]
            ELSE synthesisPrompt

\* Resume with the synthesis prompt built from the results as they were before the last push
Resume_EarlyPrompt(i, j, rs) ==
  LET n == RunLoop(plan, i, j, rs, invocations)
  IN /\ pc' = n.pc
     /\ ti' = n.ti
     /\ ai' = n.ai
     /\ toolResults' = n.toolResults
     /\ invocations' = n.invocations
     /\ enginesCreated' = IF n.pc = "FetchHTML" THEN enginesCreated + 1 ELSE enginesCreated
     /\ synthCalls' = IF n.pc = "Synthesizing" THEN synthCalls + 1 ELSE synthCalls
     /\ synthesisPrompt' =
          IF n.pc = "Synthesizing"
            THEN [reasoning |-> plan.reasoning, expectedWorkflow |-> plan.expectedWorkflow,
                  userQuery |-> userQuery, toolResults |-> toolResults]
            ELSE synthesisPrompt

\* Resume with one engine constructed on first use and used by every fetchUrl call
Resume_SharedEngine(i, j, rs) ==
  LET n == RunLoop(plan, i, j, rs, invocations)
  IN /\ pc' = n.pc
     /\ ti' = n.ti
     /\ ai' = n.ai
     /\ toolResults' = n.toolResults
     /\ invocations' = n.invocations
     /\ enginesCreated' = IF n.pc = "FetchHTML" /\ enginesCreated = 0 THEN 1 ELSE enginesCreated
     /\ synthCalls' = IF n.pc = "Synthesizing" THEN synthCalls + 1 ELSE synthCalls
     /\ synthesisPrompt' =
          IF n.pc = "Synthesizing"
            THEN [reasoning |-> plan.reasoning, expectedWorkflow |-> plan.expectedWorkflow,
                  userQuery |-> userQuery, toolResults |-> n.toolResults]
            ELSE synthesisPrompt

\* The workflow goes on from loop position (i, j) with results rs to its next await.
\* fetchUrl constructs its engine when called; the synthesis prompt embeds the plan's
\* reasoning and expectedWorkflow, the query and JSON.stringify(toolResults).
Resume(i, j, rs) ==
  LET n == RunLoop(plan, i, j, rs, invocations)
  IN /\ pc' = n.pc
     /\ ti' = n.ti
     /\ ai' = n.ai
     /\ toolResults' = n.toolResults
     /\ invocations' = n.invocations
     /\ enginesCreated' = IF n.pc = "FetchHTML" THEN enginesCreated + 1 ELSE enginesCreated
     /\ synthCalls' = IF n.pc = "Synthesizing" THEN synthCalls + 1 ELSE synthCalls
     /\ synthesisPrompt' =
          IF n.pc = "Synthesizing"
            THEN [reasoning |-> plan.reasoning, expectedWorkflow |-> plan.expectedWorkflow,
                  userQuery |-> userQuery, toolResults |-> n.toolResults]
            ELSE synthesisPrompt

\* Push with the result put in front (completion order, newest first)
Push_Unshift(r) == Resume(ti, ai + 1, <<r>> \o toolResults)

\* toolResults.push(r), then on with the next argument
Push(r) == Resume(ti, ai + 1, Append(toolResults, r))

CurArg == plan.parameters[plan.tools[ti]].items[ai]

\* const toolResults = []; the for loop over plan.object.tools is entered
Dispatch ==
  /\ pc = "Dispatching"
  /\ Resume(1, 1, <<>>)
  /\ UNCHANGED <<userQuery, planRequest, raw, plan, fetched, returned, thrown, printed, exitCode,
                 planCalls, cleanupCalls, failedAt, cancelledIn, settled, seen>>

\* SearchReturns with the argument taken off the plan's list (parameters.webSearch.shift())
SearchReturns_Shift(n) ==
  /\ pc = "Search"
  /\ Push(SuccessResult("webSearch", CurArg, SearchPayload(n)))
  /\ plan' = [plan EXCEPT !.parameters["webSearch"].items = Tail(@)]
  /\ settled' = [index |-> Len(toolResults) + 1, tool |-> plan.tools[ti], arg |-> CurArg, failed |-> FALSE, message |-> NoErr,
                 provided |-> 0, returned |-> 0, requested |-> 0]
  /\ UNCHANGED <<userQuery, planRequest, raw, fetched, returned, thrown, printed, exitCode,
                 planCalls, cleanupCalls, failedAt, cancelledIn, seen>>

\* exa.searchAndContents resolves with n items
SearchReturns(n) ==
  /\ pc = "Search"
  /\ Push(SuccessResult("webSearch", CurArg, SearchPayload(webSearchResults(n))))
  /\ settled' = [index |-> Len(toolResults) + 1, tool |-> plan.tools[ti], arg |-> CurArg, failed |-> FALSE, message |-> NoErr,
                 provided |-> n, returned |-> webSearchResults(n), requested |-> numResults(NoOption)]
  /\ UNCHANGED <<userQuery, planRequest, raw, plan, fetched, returned, thrown, printed, exitCode,
                 planCalls, cleanupCalls, failedAt, cancelledIn, seen>>

\* SearchThrows without the dispatcher's try/catch: the error leaves agenticWorkflow
SearchThrows_Rethrow(e) ==
  /\ pc = "Search"
  /\ Fail("Dispatching", WebSearchFailed(e))
  /\ UNCHANGED <<userQuery, planRequest, fetched, returned, exitCode, planCalls, synthCalls, invocations,
                 enginesCreated, cleanupCalls, cancelledIn, seen>>

\* SearchThrows with the dispatch loop started over after a provider failure, the
\* results gathered so far dropped
SearchThrows_Restart(e) ==
  /\ pc = "Search"
  /\ LET n == RunLoop(plan, 1, 1, <<>>, 0)
     IN /\ pc' = n.pc
        /\ ti' = n.ti
        /\ ai' = n.ai
        /\ toolResults' = n.toolResults
        /\ invocations' = n.invocations
  /\ settled' = NoCall
  /\ UNCHANGED <<userQuery, planRequest, raw, plan, fetched, returned, thrown, printed, exitCode,
                 planCalls, cleanupCalls, failedAt, cancelledIn, seen,
                 enginesCreated, synthCalls, synthesisPrompt>>

\* exa.searchAndContents rejects
SearchThrows(e) ==
  /\ pc = "Search"
  /\ Push(ErrorResult("webSearch", CurArg, WebSearchFailed(e)))
  /\ settled' = [index |-> Len(toolResults) + 1, tool |-> plan.tools[ti], arg |-> CurArg, failed |-> TRUE, message |-> e,
                 provided |-> 0, returned |-> 0, requested |-> 0]
  /\ UNCHANGED <<userQuery, planRequest, raw, plan, fetched, returned, thrown, printed, exitCode,
                 planCalls, cleanupCalls, failedAt, cancelledIn, seen>>

\* fetchHTML resolves: return result.content is pending while finally awaits engine.cleanup()
FetchHTMLReturns(n) ==
  /\ pc = "FetchHTML"
  /\ fetched' = [ok |-> TRUE, contentLength |-> n, error |-> NoErr]
  /\ cleanupCalls' = cleanupCalls + 1
  /\ pc' = "Cleanup"
  /\ UNCHANGED <<userQuery, planRequest, raw, plan, ti, ai, toolResults, synthesisPrompt, returned, thrown, printed,
                 exitCode, planCalls, synthCalls, invocations, enginesCreated, failedAt, cancelledIn, settled, seen>>

\* fetchHTML rejects: the catch block logs and rethrows, finally awaits engine.cleanup()
FetchHTMLThrows(e) ==
  /\ pc = "FetchHTML"
  /\ fetched' = [ok |-> FALSE, contentLength |-> 0, error |-> e]
  /\ cleanupCalls' = cleanupCalls + 1
  /\ pc' = "Cleanup"
  /\ UNCHANGED <<userQuery, planRequest, raw, plan, ti, ai, toolResults, synthesisPrompt, returned, thrown, printed,
                 exitCode, planCalls, synthCalls, invocations, enginesCreated, failedAt, cancelledIn, settled, seen>>

\* FetchUrlResult with a failed cleanup after a successful fetch recorded as content and error both
FetchUrlResult_Both(url, f, cleanupOk) ==
  IF ~cleanupOk /\ f.ok
    THEN [SuccessResult("fetchUrl", url, FetchPayload(f.contentLength))
            EXCEPT !.has = {"result", "error"}, !.error = CleanupError]
  ELSE IF ~cleanupOk THEN ErrorResult("fetchUrl", url, CleanupError)
  ELSE IF f.ok THEN SuccessResult("fetchUrl", url, FetchPayload(f.contentLength))
  ELSE ErrorResult("fetchUrl", url, f.error)

\* What the dispatcher pushes once fetchUrl has settled; cleanupOk: engine.cleanup() resolved.
\* A rejection of cleanup inside finally replaces the pending return or throw.
FetchUrlResult(url, f, cleanupOk) ==
  IF ~cleanupOk THEN ErrorResult("fetchUrl", url, CleanupError)
  ELSE IF f.ok THEN SuccessResult("fetchUrl", url, FetchPayload(f.contentLength))
  ELSE ErrorResult("fetchUrl", url, f.error)

\* engine.cleanup() resolves: fetchUrl settles as fetchHTML did
CleanupReturns ==
  /\ pc = "Cleanup"
  /\ Push(FetchUrlResult(CurArg, fetched, TRUE))
  /\ fetched' = NoFetch
  /\ settled' = [index |-> Len(toolResults) + 1, tool |-> plan.tools[ti], arg |-> CurArg, failed |-> ~fetched.ok, message |-> fetched.error,
                 provided |-> fetched.contentLength, returned |-> 0, requested |-> 0]
  /\ UNCHANGED <<userQuery, planRequest, raw, plan, returned, thrown, printed, exitCode,
                 planCalls, cleanupCalls, failedAt, cancelledIn, seen>>

\* CleanupThrows with the rejection of engine.cleanup() escaping the dispatcher
CleanupThrows_Rethrow ==
  /\ pc = "Cleanup"
  /\ Fail("Dispatching", CleanupError)
  /\ fetched' = NoFetch
  /\ UNCHANGED <<userQuery, planRequest, returned, exitCode, planCalls, synthCalls, invocations,
                 enginesCreated, cleanupCalls, cancelledIn, seen>>

\* engine.cleanup() rejects: fetchUrl rejects with that error, whatever fetchHTML did
CleanupThrows ==
  /\ pc = "Cleanup"
  /\ Push(FetchUrlResult(CurArg, fetched, FALSE))
  /\ fetched' = NoFetch
  /\ settled' = [index |-> Len(toolResults) + 1, tool |-> plan.tools[ti], arg |-> CurArg, failed |-> TRUE, message |-> CleanupError,
                 provided |-> 0, returned |-> 0, requested |-> 0]
  /\ UNCHANGED <<userQuery, planRequest, raw, plan, returned, thrown, printed, exitCode,
                 planCalls, cleanupCalls, failedAt, cancelledIn, seen>>

\* What the dispatcher pushes for a settled generateHaiku call
HaikuResult(prompt, o) ==
  IF o.threw THEN ErrorResult("generateHaiku", prompt, o.message)
  ELSE SuccessResult("generateHaiku", prompt, HaikuPayload(o.text))

\* the haiku model call resolves
HaikuReturns(text) ==
  /\ pc = "Haiku"
  /\ Push(HaikuResult(CurArg, generateHaiku(TRUE, text, NoErr)))
  /\ settled' = [index |-> Len(toolResults) + 1, tool |-> plan.tools[ti], arg |-> CurArg, failed |-> FALSE, message |-> NoErr,
                 provided |-> 0, returned |-> 0, requested |-> 0]
  /\ UNCHANGED <<userQuery, planRequest, raw, plan, fetched, returned, thrown, printed, exitCode,
                 planCalls, cleanupCalls, failedAt, cancelledIn, seen>>

\* the haiku model call rejects
HaikuThrows(e) ==
  /\ pc = "Haiku"
  /\ Push(HaikuResult(CurArg, generateHaiku(FALSE, "", e)))
  /\ settled' = [index |-> Len(toolResults) + 1, tool |-> plan.tools[ti], arg |-> CurArg, failed |-> TRUE, message |-> e,
                 provided |-> 0, returned |-> 0, requested |-> 0]
  /\ UNCHANGED <<userQuery, planRequest, raw, plan, fetched, returned, thrown, printed, exitCode,
                 planCalls, cleanupCalls, failedAt, cancelledIn, seen>>

\* ---------------------------------------------------------------- synthesis
\* agenticWorkflow returns {plan, toolResults, response}; processQuery prints the response.
SynthesisReturns(text) ==
  /\ pc = "Synthesizing"
  /\ returned' = [plan |-> plan, toolResults |-> toolResults, response |-> text]
  /\ printed' = "response"
  /\ pc' = "Complete"
  /\ UNCHANGED <<userQuery, planRequest, raw, plan, ti, ai, toolResults, fetched, synthesisPrompt, thrown, exitCode,
                 planCalls, synthCalls, invocations, enginesCreated, cleanupCalls, failedAt, cancelledIn, settled, seen>>

\* SynthesisFails with the synthesis call made again instead of failing the run
SynthesisFails_Retry(e) ==
  /\ pc = "Synthesizing"
  /\ synthCalls' = synthCalls + 1
  /\ UNCHANGED <<pc, userQuery, planRequest, raw, plan, ti, ai, toolResults, fetched, synthesisPrompt, returned,
                 thrown, printed, exitCode, planCalls, invocations, enginesCreated, cleanupCalls,
                 failedAt, cancelledIn, settled>>

\* generateText rejects: agenticWorkflow rejects with the same error
SynthesisFails(e) ==
  /\ pc = "Synthesizing"
  /\ Fail("Synthesizing", e)
  /\ UNCHANGED <<userQuery, planRequest, fetched, returned,
                 exitCode, planCalls, synthCalls, invocations, enginesCreated, cleanupCalls, cancelledIn>>

\* SigInt delivered to the run as a Cancelled error instead of ending the process
SigInt_Cancelled ==
  /\ pc # "Exited"
  /\ Fail("Cancelled", "Cancelled")
  /\ cancelledIn' = pc
  /\ fetched' = NoFetch
  /\ returned' = NoReturn
  /\ UNCHANGED <<userQuery, planRequest, exitCode, seen, planCalls, synthCalls, invocations,
                 enginesCreated, cleanupCalls>>

\* SigInt during an invocation stopping the loop and synthesising what was gathered
SigInt_Partial ==
  /\ pc \in {"Search", "FetchHTML", "Cleanup", "Haiku"}
  /\ pc' = "Synthesizing"
  /\ cancelledIn' = pc
  /\ fetched' = NoFetch
  /\ synthCalls' = synthCalls + 1
  /\ synthesisPrompt' = [reasoning |-> plan.reasoning, expectedWorkflow |-> plan.expectedWorkflow,
                         userQuery |-> userQuery, toolResults |-> toolResults]
  /\ UNCHANGED <<userQuery, planRequest, raw, plan, ti, ai, toolResults, returned, thrown, printed, exitCode,
                 planCalls, invocations, enginesCreated, cleanupCalls, failedAt, settled, seen>>

\* ---------------------------------------------------------------- Ctrl+C
\* rl.on("SIGINT"): goodbye, rl.close(), process.exit(0). Nothing of the run survives
\* the process; an engine whose cleanup was not yet called is never cleaned up.
SigInt ==
  /\ pc # "Exited"
  /\ pc' = "Exited"
  /\ exitCode' = 0
  /\ cancelledIn' = pc
  /\ raw' = NoPlan
  /\ plan' = NoPlan
  /\ ti' = 1
  /\ ai' = 1
  /\ toolResults' = <<>>
  /\ fetched' = NoFetch
  /\ synthesisPrompt' = NoPrompt
  /\ userQuery' = ""
  /\ planRequest' = NoRequest
  /\ returned' = NoReturn
  /\ thrown' = NoErr
  /\ settled' = NoCall
  /\ UNCHANGED <<seen, printed, planCalls, synthCalls, invocations,
                 enginesCreated, cleanupCalls, failedAt>>

\* ---------------------------------------------------------------- specifications
\* the kind of fatal failure a stage's failure is
KindOf(stage) == IF stage = "Synthesizing" THEN "SynthesisError" ELSE "PlanGenerationError"

\* history: what processQuery caught, with the kind of failure it was
Observe == seen' = seen \cup {<<thrown', KindOf(failedAt')>>}

Next ==
  \/ \E q \in Queries : ProcessQuery(q) /\ UNCHANGED outerVars
  \/ \E e \in ModelErrors : PlanCallFails(e) /\ UNCHANGED seen /\ UNCHANGED outerVars
  \/ pc = "Planning" /\ \E r \in RawResponses : PlanCallReturns(r) /\ UNCHANGED outerVars
  \/ ValidateOk /\ UNCHANGED outerVars
  \/ ValidateFails /\ UNCHANGED seen /\ UNCHANGED outerVars
  \/ Dispatch /\ UNCHANGED outerVars
  \/ \E n \in SearchSizes : SearchReturns(n) /\ UNCHANGED outerVars
  \/ \E e \in ProviderErrors : SearchThrows(e) /\ UNCHANGED outerVars
  \/ \E n \in ContentLengths : FetchHTMLReturns(n) /\ UNCHANGED outerVars
  \/ \E e \in ProviderErrors : FetchHTMLThrows(e) /\ UNCHANGED outerVars
  \/ CleanupReturns /\ UNCHANGED outerVars
  \/ CleanupThrows /\ UNCHANGED outerVars
  \/ \E t \in HaikuTexts : HaikuReturns(t) /\ UNCHANGED outerVars
  \/ \E e \in ModelErrors : HaikuThrows(e) /\ UNCHANGED outerVars
  \/ \E t \in Answers : SynthesisReturns(t) /\ UNCHANGED outerVars
  \/ \E e \in ModelErrors : SynthesisFails(e) /\ UNCHANGED seen /\ UNCHANGED outerVars
  \/ SigInt /\ UNCHANGED outerVars

Spec == Init /\ [][Next]_vars

\* A CLI session of several queries with the history of the errors processQuery caught;
\* the planning model answers with one of the smaller plans.
SessionResponses ==
  {r \in RawResponses : Len(r.tools) <= SessionMaxTools /\ ArgCount(r.parameters) <= SessionMaxArgs}

NextSession ==
  \/ \E q \in Queries : ProcessQuery(q) /\ UNCHANGED outerVars
  \/ \E e \in ModelErrors : PlanCallFails(e) /\ Observe /\ UNCHANGED outerVars
  \/ pc = "Planning" /\ \E r \in SessionResponses : PlanCallReturns(r) /\ UNCHANGED outerVars
  \/ ValidateOk /\ UNCHANGED outerVars
  \/ ValidateFails /\ Observe /\ UNCHANGED outerVars
  \/ Dispatch /\ UNCHANGED outerVars
  \/ \E n \in SearchSizes : SearchReturns(n) /\ UNCHANGED outerVars
  \/ \E e \in ProviderErrors : SearchThrows(e) /\ UNCHANGED outerVars
  \/ \E n \in ContentLengths : FetchHTMLReturns(n) /\ UNCHANGED outerVars
  \/ \E e \in ProviderErrors : FetchHTMLThrows(e) /\ UNCHANGED outerVars
  \/ CleanupReturns /\ UNCHANGED outerVars
  \/ CleanupThrows /\ UNCHANGED outerVars
  \/ \E t \in HaikuTexts : HaikuReturns(t) /\ UNCHANGED outerVars
  \/ \E e \in ModelErrors : HaikuThrows(e) /\ UNCHANGED outerVars
  \/ \E t \in Answers : SynthesisReturns(t) /\ UNCHANGED outerVars
  \/ \E e \in ModelErrors : SynthesisFails(e) /\ Observe /\ UNCHANGED outerVars
  \/ SigInt /\ UNCHANGED outerVars

SpecSession == Init /\ [][NextSession]_vars

\* A session in which the provider answers a search with any number of items up to
\* one more than asked for, and a fetch yields content shorter than, as long as and
\* longer than the dispatcher keeps.
SearchSizesWide == {0, 2, 3, 4, 5, 6}
ContentLengthsWide == {0, 1999, 2000, 2001}

NextPayload ==
  \/ \E q \in Queries : ProcessQuery(q) /\ UNCHANGED outerVars
  \/ \E e \in ModelErrors : PlanCallFails(e) /\ UNCHANGED seen /\ UNCHANGED outerVars
  \/ pc = "Planning" /\ \E r \in SessionResponses : PlanCallReturns(r) /\ UNCHANGED outerVars
  \/ ValidateOk /\ UNCHANGED outerVars
  \/ ValidateFails /\ UNCHANGED seen /\ UNCHANGED outerVars
  \/ Dispatch /\ UNCHANGED outerVars
  \/ \E n \in SearchSizesWide : SearchReturns(n) /\ UNCHANGED outerVars
  \/ \E e \in ProviderErrors : SearchThrows(e) /\ UNCHANGED outerVars
  \/ \E n \in ContentLengthsWide : FetchHTMLReturns(n) /\ UNCHANGED outerVars
  \/ \E e \in ProviderErrors : FetchHTMLThrows(e) /\ UNCHANGED outerVars
  \/ CleanupReturns /\ UNCHANGED outerVars
  \/ CleanupThrows /\ UNCHANGED outerVars
  \/ \E t \in HaikuTexts : HaikuReturns(t) /\ UNCHANGED outerVars
  \/ \E e \in ModelErrors : HaikuThrows(e) /\ UNCHANGED outerVars
  \/ \E t \in Answers : SynthesisReturns(t) /\ UNCHANGED outerVars
  \/ \E e \in ModelErrors : SynthesisFails(e) /\ UNCHANGED seen /\ UNCHANGED outerVars
  \/ SigInt /\ UNCHANGED outerVars

SpecPayload == Init /\ [][NextPayload]_vars

\* ---------------------------------------------------------------- the line handler
\* A line is the sequence of its characters.
Whitespace == {" ", "\t"}
Uppers == <<"E", "X", "I", "T", "Q", "U", "B", "Y">>
Lowers == <<"e", "x", "i", "t", "q", "u", "b", "y">>

\* toLowerCase leaving the line as typed (the comparison case-sensitive)
toLowerCase_AsTyped(s) == s

\* String.prototype.toLowerCase
toLowerCase(s) ==
  [i \in 1..Len(s) |->
     IF \E k \in 1..Len(Uppers) : Uppers[k] = s[i]
       THEN Lowers[CHOOSE k \in 1..Len(Uppers) : Uppers[k] = s[i]]
       ELSE s[i]]

\* String.prototype.trim: leading and trailing whitespace removed
RECURSIVE trimStart(_)
trimStart(s) == IF s # <<>> /\ Head(s) \in Whitespace THEN trimStart(Tail(s)) ELSE s

RECURSIVE trimEnd(_)
trimEnd(s) ==
  IF s # <<>> /\ s[Len(s)] \in Whitespace THEN trimEnd(SubSeq(s, 1, Len(s) - 1)) ELSE s

trim(s) == trimEnd(trimStart(s))

exitCommands == {<<"e", "x", "i", "t">>, <<"q", "u", "i", "t">>, <<"b", "y", "e">>, <<"q">>}

\* what processQuery does with a line before any workflow is started
IsExit(l) == trim(toLowerCase(l)) \in exitCommands
IsBlank(l) == trim(l) = <<>>

\* the lines typed: the four exit commands in mixed case and with whitespace around,
\* an empty and a blank line, two queries (one of them beginning like a command)
LineInputs ==
  { <<" ", "E", "X", "I", "T">>, <<"Q", "u", "i", "t", " ">>, <<"b", "y", "e">>, <<"\t", "q", " ">>,
    <<>>, <<" ", "\t">>,
    <<"h", "i">>, <<"q", "q">> }

\* what the planning model answers in this specification: a fetch, a haiku and then
\* a search, or a response the schema rejects
CliResponses ==
  {MkRaw(PlanFields, "r", <<"fetchUrl">>, [NoParams EXCEPT !["fetchUrl"] = ArrayParam(<<"a">>)])}
  \cup {MkRaw(PlanFields, "r", <<"generateHaiku", "webSearch">>,
              [NoParams EXCEPT !["generateHaiku"] = ArrayParam(<<"a">>), !["webSearch"] = ArrayParam(<<"a">>)]),
        MkRaw(PlanFields, "r", <<"sendEmail">>, NoParams)}

\* how the external calls of a run can settle
SearchOutcomes == [ok : {TRUE}, n : SearchSizes, error : {NoErr}]
FetchOutcomes ==
  [ok : {TRUE}, contentLength : ContentLengths, error : {NoErr}]
    \cup [ok : {FALSE}, contentLength : {0}, error : ProviderErrors]
HaikuOutcomes == [ok : {TRUE}, text : HaikuTexts, error : {NoErr}]

\* the variables of a single serial run, which this specification leaves alone
serialVars == <<pc, userQuery, planRequest, raw, plan, ti, ai, toolResults, fetched, synthesisPrompt,
                returned, thrown, printed, planCalls, synthCalls, invocations,
                enginesCreated, cleanupCalls, failedAt, cancelledIn, settled, seen>>

\* agenticWorkflow(line) called by processQuery: its locals, and what processQuery printed
NewRun(l) ==
  [query |-> l, pc |-> "Planning", plan |-> NoPlan, ti |-> 1, ai |-> 1,
   toolResults |-> <<>>, fetched |-> NoFetch, out |-> "nothing"]

InFlight(k) == runs[k].pc \notin {"Complete", "Error"}

\* rl.on("line", async (input) => ...): processQuery(input) is called for every line
\* readline emits, whatever earlier handlers are still waiting for. An exit command
\* makes it return false and the handler calls process.exit(0); a blank line prints a
\* hint; any other line starts agenticWorkflow, which awaits generateObject.
Line(l) ==
  /\ exitCode = -1
  /\ lines.count < MaxLines
  /\ lines' = [count |-> lines.count + 1, last |-> l]
  /\ IF IsExit(l) THEN exitCode' = 0 /\ runs' = runs
     ELSE IF IsBlank(l) THEN UNCHANGED <<exitCode, runs>>
     ELSE /\ Len(runs) < MaxRuns
          /\ runs' = Append(runs, NewRun(l))
          /\ UNCHANGED exitCode
  /\ UNCHANGED <<serialVars, libVars>>

\* run k goes on from loop position (i, j) with the results rs to its next await
CliResume(k, pl, i, j, rs) ==
  LET n == RunLoop(pl, i, j, rs, 0)
  IN runs' = [runs EXCEPT ![k] = [@ EXCEPT !.pc = n.pc, !.plan = pl, !.ti = n.ti, !.ai = n.ai,
                                            !.toolResults = n.toolResults, !.fetched = NoFetch]]

\* run k rejects: processQuery's catch prints the error
CliFail(k) ==
  runs' = [runs EXCEPT ![k] = [@ EXCEPT !.pc = "Error", !.out = "error", !.fetched = NoFetch]]

\* generateObject of run k settles: with a plan, or rejecting (call failed, or schema)
CliPlanSettles(k, ok, r) ==
  /\ exitCode = -1
  /\ k \in 1..Len(runs)
  /\ runs[k].pc = "Planning"
  /\ IF ok /\ plannerSchema(r) THEN CliResume(k, r, 1, 1, <<>>) ELSE CliFail(k)
  /\ UNCHANGED <<lines, exitCode>>
  /\ UNCHANGED <<serialVars, libVars>>

CliArg(k) == ArgAt(runs[k].plan, <<runs[k].ti, runs[k].ai>>)

\* CliPush with one results array shared by all the runs in flight
CliPush_Shared(k, res) ==
  LET n == RunLoop(runs[k].plan, runs[k].ti, runs[k].ai + 1, Append(runs[k].toolResults, res), 0)
  IN runs' = [x \in 1..Len(runs) |->
                IF x = k
                  THEN [runs[k] EXCEPT !.pc = n.pc, !.ti = n.ti, !.ai = n.ai,
                                       !.toolResults = n.toolResults, !.fetched = NoFetch]
                ELSE IF InFlight(x) THEN [runs[x] EXCEPT !.toolResults = Append(@, res)]
                ELSE runs[x]]

\* toolResults.push(res) in run k, then on with its next argument
CliPush(k, res) ==
  CliResume(k, runs[k].plan, runs[k].ti, runs[k].ai + 1, Append(runs[k].toolResults, res))

\* exa.searchAndContents of run k settles
CliSearchSettles(k, o) ==
  /\ exitCode = -1
  /\ k \in 1..Len(runs)
  /\ runs[k].pc = "Search"
  /\ CliPush(k, IF o.ok THEN SuccessResult("webSearch", CliArg(k), SearchPayload(webSearchResults(o.n)))
                ELSE ErrorResult("webSearch", CliArg(k), WebSearchFailed(o.error)))
  /\ UNCHANGED <<lines, exitCode>>
  /\ UNCHANGED <<serialVars, libVars>>

\* engine.fetchHTML of run k settles; the finally block awaits engine.cleanup()
CliFetchHTMLSettles(k, f) ==
  /\ exitCode = -1
  /\ k \in 1..Len(runs)
  /\ runs[k].pc = "FetchHTML"
  /\ runs' = [runs EXCEPT ![k] = [@ EXCEPT !.pc = "Cleanup", !.fetched = f]]
  /\ UNCHANGED <<lines, exitCode>>
  /\ UNCHANGED <<serialVars, libVars>>

\* engine.cleanup() of run k settles
CliCleanupSettles(k, cleanupOk) ==
  /\ exitCode = -1
  /\ k \in 1..Len(runs)
  /\ runs[k].pc = "Cleanup"
  /\ CliPush(k, FetchUrlResult(CliArg(k), runs[k].fetched, cleanupOk))
  /\ UNCHANGED <<lines, exitCode>>
  /\ UNCHANGED <<serialVars, libVars>>

\* the haiku model call of run k settles
CliHaikuSettles(k, o) ==
  /\ exitCode = -1
  /\ k \in 1..Len(runs)
  /\ runs[k].pc = "Haiku"
  /\ CliPush(k, HaikuResult(CliArg(k), generateHaiku(o.ok, o.text, o.error)))
  /\ UNCHANGED <<lines, exitCode>>
  /\ UNCHANGED <<serialVars, libVars>>

\* generateText of run k settles: processQuery prints the response, or the error
CliSynthesisSettles(k, ok) ==
  /\ exitCode = -1
  /\ k \in 1..Len(runs)
  /\ runs[k].pc = "Synthesizing"
  /\ IF ok THEN runs' = [runs EXCEPT ![k] = [@ EXCEPT !.pc = "Complete", !.out = "response"]]
     ELSE CliFail(k)
  /\ UNCHANGED <<lines, exitCode>>
  /\ UNCHANGED <<serialVars, libVars>>

\* rl.on("SIGINT"): process.exit(0)
CliSigInt ==
  /\ exitCode = -1
  /\ exitCode' = 0
  /\ UNCHANGED <<lines, runs>>
  /\ UNCHANGED <<serialVars, libVars>>

NextCLI ==
  \/ \E l \in LineInputs : Line(l)
  \/ \E k \in 1..MaxRuns : \E ok \in BOOLEAN : \E r \in CliResponses : CliPlanSettles(k, ok, r)
  \/ \E k \in 1..MaxRuns : \E o \in SearchOutcomes : CliSearchSettles(k, o)
  \/ \E k \in 1..MaxRuns : \E f \in FetchOutcomes : CliFetchHTMLSettles(k, f)
  \/ \E k \in 1..MaxRuns : CliCleanupSettles(k, TRUE)
  \/ \E k \in 1..MaxRuns : \E o \in HaikuOutcomes : CliHaikuSettles(k, o)
  \/ \E k \in 1..MaxRuns : \E ok \in BOOLEAN : CliSynthesisSettles(k, ok)
  \/ CliSigInt

SpecCLI == Init /\ [][NextCLI]_vars

\* ---------------------------------------------------------------- environment
\* Sessions under any environment: EXA_API_KEY unset, empty or set, on either date;
\* queries with and without temporal language; plans of a few invocations. At the
\* prompt webSearch may also be called on its own, with any options.
EnvMaxArgs == 2
Envs == [EXA_API_KEY : ApiKeys, today : Dates]
EnvResponses ==
  {r \in RawResponses : Len(r.tools) <= SessionMaxTools /\ ArgCount(r.parameters) <= EnvMaxArgs}

InitEnv == InitRun /\ env \in Envs

runVars == <<serialVars, exitCode, cliVars>>

\* webSearch(q, o) is called: it throws before the provider call, or awaits
\* exa.searchAndContents(query, {numResults, ...})
WebSearchCall(q, o) ==
  /\ pc = "Idle"
  /\ ws.pc # "Provider"
  /\ LET s == webSearchStart(q, o, env.EXA_API_KEY)
     IN ws' = [pc |-> IF s.threw THEN "Thrown" ELSE "Provider", query |-> q, options |-> o,
               requested |-> s.requested, providerCalls |-> IF s.threw THEN 0 ELSE 1,
               returned |-> 0, message |-> s.message]
  /\ UNCHANGED <<runVars, env, userVars>>

\* the provider answers with n items: webSearch resolves with all of them
ProviderReturns(n) ==
  /\ ws.pc = "Provider"
  /\ ws' = [ws EXCEPT !.pc = "Returned", !.returned = webSearchResults(n)]
  /\ UNCHANGED <<runVars, env, userVars>>

\* the provider call rejects: the catch block rethrows with the prefixed message
ProviderThrows(e) ==
  /\ ws.pc = "Provider"
  /\ ws' = [ws EXCEPT !.pc = "Thrown", !.message = WebSearchFailed(e)]
  /\ UNCHANGED <<runVars, env, userVars>>

NextEnv ==
  \/ \E q \in QueriesWide : ProcessQuery(q) /\ ws.pc = "none" /\ UNCHANGED outerVars
  \/ pc = "Planning" /\ \E r \in EnvResponses : PlanCallReturns(r) /\ UNCHANGED outerVars
  \/ ValidateOk /\ UNCHANGED outerVars
  \/ ValidateFails /\ UNCHANGED seen /\ UNCHANGED outerVars
  \/ Dispatch /\ UNCHANGED outerVars
  \/ \E n \in SearchSizes : SearchReturns(n) /\ UNCHANGED outerVars
  \/ \E e \in ProviderErrors : SearchThrows(e) /\ UNCHANGED outerVars
  \/ \E n \in ContentLengths : FetchHTMLReturns(n) /\ UNCHANGED outerVars
  \/ CleanupReturns /\ UNCHANGED outerVars
  \/ \E t \in HaikuTexts : HaikuReturns(t) /\ UNCHANGED outerVars
  \/ \E t \in Answers : SynthesisReturns(t) /\ UNCHANGED outerVars
  \/ \E q \in {"a", "", " "}, o \in OptionsInputs : WebSearchCall(q, o)
  \/ \E n \in SearchSizes : ProviderReturns(n)
  \/ \E e \in ProviderErrors : ProviderThrows(e)

SpecEnv == InitEnv /\ [][NextEnv]_vars


\* ---------------------------------------------------------------- user_service
\* Strings are sequences of characters. A request is the record of its fields with
\* `has` naming the fields the object carries.
MaxCalls == 3

\* Number.prototype.toString of a natural number
Digits == <<"0", "1", "2", "3", "4", "5", "6", "7", "8", "9">>
RECURSIVE toString(_)
toString(n) ==
  IF n < 10 THEN <<Digits[n + 1]>> ELSE toString(n \div 10) \o <<Digits[(n % 10) + 1]>>

\* [^\s@]+ matching all of t
NoSpaceNoAt(t) == t # <<>> /\ \A i \in 1..Len(t) : t[i] \notin Whitespace \cup {"@"}

\* validateEmail: /^[^\s@]+@[^\s@]+\.[^\s@]+$/.test(email)
validateEmail(s) ==
  \E a \in 1..Len(s), d \in 1..Len(s) :
    /\ a < d
    /\ s[a] = "@"
    /\ s[d] = "."
    /\ NoSpaceNoAt(SubSeq(s, 1, a - 1))
    /\ NoSpaceNoAt(SubSeq(s, a + 1, d - 1))
    /\ NoSpaceNoAt(SubSeq(s, d + 1, Len(s)))

\* !data.f?.trim(): the field is missing, or empty once trimmed
Missing(data, f) == f \notin data.has \/ trim(data[f]) = <<>>

\* validateUserData(data): the error, or the request with names trimmed and the
\* email trimmed and in lower case
validateUserData(data) ==
  IF Missing(data, "firstName") THEN [success |-> FALSE, error |-> "First name is required", data |-> NoReq]
  ELSE IF Missing(data, "lastName") THEN [success |-> FALSE, error |-> "Last name is required", data |-> NoReq]
  ELSE IF Missing(data, "email") THEN [success |-> FALSE, error |-> "Email is required", data |-> NoReq]
  ELSE IF ~validateEmail(data.email) THEN [success |-> FALSE, error |-> "Invalid email format", data |-> NoReq]
  ELSE [success |-> TRUE, error |-> NoErr,
        data |-> [NoReq EXCEPT !.has = {"firstName", "lastName", "email", "colourPreference"},
                               !.firstName = trim(data.firstName),
                               !.lastName = trim(data.lastName),
                               !.email = toLowerCase(trim(data.email)),
                               !.colourPreference = data.colourPreference]]

\* createUserEntity(data) at time now, with the counter at nid
createUserEntity(data, nid, now) ==
  [id |-> toString(nid), firstName |-> data.firstName, lastName |-> data.lastName,
   email |-> data.email, colourPreference |-> data.colourPreference,
   isActive |-> TRUE, createdAt |-> now, updatedAt |-> now]

\* updateUserEntity(existing, updates) at time now: {...existing, ...updates, updatedAt}
updateUserEntity(existing, updates, now) ==
  [id               |-> IF "id" \in updates.has THEN updates.id ELSE existing.id,
   firstName        |-> IF "firstName" \in updates.has THEN updates.firstName ELSE existing.firstName,
   lastName         |-> IF "lastName" \in updates.has THEN updates.lastName ELSE existing.lastName,
   email            |-> IF "email" \in updates.has THEN updates.email ELSE existing.email,
   colourPreference |-> IF "colourPreference" \in updates.has THEN updates.colourPreference
                        ELSE existing.colourPreference,
   isActive         |-> IF "isActive" \in updates.has THEN updates.isActive ELSE existing.isActive,
   createdAt        |-> existing.createdAt,
   updatedAt        |-> now]

\* users.findIndex((u) => u.id === id): the first index, 0 when there is none
findIndex(us, id) ==
  IF \E i \in 1..Len(us) : us[i].id = id
    THEN CHOOSE i \in 1..Len(us) : us[i].id = id /\ \A j \in 1..(i - 1) : us[j].id # id
    ELSE 0

ok(user) == [success |-> TRUE, error |-> NoErr, data |-> user]
err(e) == [success |-> FALSE, error |-> e, data |-> NoUser]

\* create_user with the counter advanced for every call, rejected requests included
create_user_CountsCalls(us, nid, request, now) ==
  LET validation == validateUserData(request)
  IN IF ~validation.success
       THEN [users |-> us, nextId |-> nid + 1, result |-> err(validation.error)]
       ELSE LET user == createUserEntity(validation.data, nid, now)
            IN [users |-> Append(us, user), nextId |-> nid + 1, result |-> ok(user)]

\* user_service.create_user(request) on the array us with the counter at nid
create_user(us, nid, request, now) ==
  LET validation == validateUserData(request)
  IN IF ~validation.success
       THEN [users |-> us, nextId |-> nid, result |-> err(validation.error)]
       ELSE LET user == createUserEntity(validation.data, nid, now)
            IN [users |-> Append(us, user), nextId |-> nid + 1, result |-> ok(user)]

\* user_service.get_user_by_id(id)
get_user_by_id(us, id) ==
  IF findIndex(us, id) = 0 THEN err("User not found") ELSE ok(us[findIndex(us, id)])

\* user_service.update_user(request): only a non-empty email is validated
update_user(us, nid, request, now) ==
  IF findIndex(us, request.id) = 0
    THEN [users |-> us, nextId |-> nid, result |-> err("User not found")]
  ELSE IF "email" \in request.has /\ request.email # <<>> /\ ~validateEmail(request.email)
    THEN [users |-> us, nextId |-> nid, result |-> err("Invalid email format")]
  ELSE LET updatedUser == updateUserEntity(us[findIndex(us, request.id)], request, now)
       IN [users |-> [us EXCEPT ![findIndex(us, request.id)] = updatedUser],
           nextId |-> nid, result |-> ok(updatedUser)]

\* delete_user with the user taken out of the array
delete_user_Remove(us, nid, id, now) ==
  IF findIndex(us, id) = 0
    THEN [users |-> us, nextId |-> nid, result |-> err("User not found")]
  ELSE LET deletedUser ==
             updateUserEntity(us[findIndex(us, id)], [NoReq EXCEPT !.has = {"id", "isActive"}, !.id = id], now)
       IN [users |-> SubSeq(us, 1, findIndex(us, id) - 1) \o SubSeq(us, findIndex(us, id) + 1, Len(us)),
           nextId |-> nid, result |-> ok(deletedUser)]

\* user_service.delete_user(id): updateUserEntity(user, {id, isActive: false}) put in place
delete_user(us, nid, id, now) ==
  IF findIndex(us, id) = 0
    THEN [users |-> us, nextId |-> nid, result |-> err("User not found")]
  ELSE LET deletedUser ==
             updateUserEntity(us[findIndex(us, id)], [NoReq EXCEPT !.has = {"id", "isActive"}, !.id = id], now)
       IN [users |-> [us EXCEPT ![findIndex(us, id)] = deletedUser],
           nextId |-> nid, result |-> ok(deletedUser)]

\* the requests tried: accepted ones (one to be trimmed and lower-cased), and one
\* rejected for each check of validateUserData
CreateInputs ==
  { [NoReq EXCEPT !.has = {"firstName", "lastName", "email"},
                  !.firstName = <<" ", "E", "u">>, !.lastName = <<"B", "u", " ">>,
                  !.email = <<"B", "@", "x", ".", "y">>],
    [NoReq EXCEPT !.has = {"firstName", "lastName", "email", "colourPreference"},
                  !.firstName = <<"Q", "i">>, !.lastName = <<"y", "u">>,
                  !.email = <<"q", "@", "x", ".", "y">>, !.colourPreference = <<"b">>],
    [NoReq EXCEPT !.has = {"firstName", "lastName", "email"},
                  !.firstName = <<" ">>, !.lastName = <<"B", "u">>,
                  !.email = <<"b", "@", "x", ".", "y">>],
    [NoReq EXCEPT !.has = {"firstName", "email"},
                  !.firstName = <<"E", "u">>, !.email = <<"b", "@", "x", ".", "y">>],
    [NoReq EXCEPT !.has = {"firstName", "lastName", "email"},
                  !.firstName = <<"E", "u">>, !.lastName = <<"B", "u">>, !.email = <<>>],
    [NoReq EXCEPT !.has = {"firstName", "lastName", "email"},
                  !.firstName = <<"E", "u">>, !.lastName = <<"B", "u">>,
                  !.email = <<"b", "@", "x", "y">>],
    [NoReq EXCEPT !.has = {"firstName", "lastName", "email"},
                  !.firstName = <<"E", "u">>, !.lastName = <<"B", "u">>,
                  !.email = <<" ", "b", "@", "x", ".", "y">>] }

UserIds == {toString(1), toString(2), toString(9)}

UpdateInputs ==
  { [r EXCEPT !.id = id, !.has = r.has \cup {"id"}] :
      id \in UserIds,
      r \in { NoReq,
              [NoReq EXCEPT !.has = {"firstName"}, !.firstName = <<>>],
              [NoReq EXCEPT !.has = {"lastName"}, !.lastName = <<"U", "i">>],
              [NoReq EXCEPT !.has = {"email"}, !.email = <<>>],
              [NoReq EXCEPT !.has = {"email"}, !.email = <<"x", "y">>],
              [NoReq EXCEPT !.has = {"email"}, !.email = <<"E", "@", "x", ".", "y">>],
              [NoReq EXCEPT !.has = {"isActive"}, !.isActive = TRUE] } }

\* what the user_service actions leave alone
otherVars == <<runVars, env, ws>>

CreateUser(request) ==
  /\ calls < MaxCalls
  /\ LET r == create_user(users, nextId, request, calls)
     IN /\ users' = r.users
        /\ nextId' = r.nextId
        /\ reply' = [op |-> "create_user", request |-> request, success |-> r.result.success,
                     error |-> r.result.error, data |-> r.result.data]
  /\ calls' = calls + 1
  /\ UNCHANGED otherVars

UpdateUser(request) ==
  /\ calls < MaxCalls
  /\ LET r == update_user(users, nextId, request, calls)
     IN /\ users' = r.users
        /\ nextId' = r.nextId
        /\ reply' = [op |-> "update_user", request |-> request, success |-> r.result.success,
                     error |-> r.result.error, data |-> r.result.data]
  /\ calls' = calls + 1
  /\ UNCHANGED otherVars

DeleteUser(id) ==
  /\ calls < MaxCalls
  /\ LET r == delete_user(users, nextId, id, calls)
     IN /\ users' = r.users
        /\ nextId' = r.nextId
        /\ reply' = [op |-> "delete_user", request |-> [NoReq EXCEPT !.has = {"id"}, !.id = id],
                     success |-> r.result.success, error |-> r.result.error, data |-> r.result.data]
  /\ calls' = calls + 1
  /\ UNCHANGED otherVars

NextUsers ==
  \/ \E request \in CreateInputs : CreateUser(request)
  \/ \E request \in UpdateInputs : UpdateUser(request)
  \/ \E id \in UserIds : DeleteUser(id)

SpecUsers == Init /\ [][NextUsers]_vars

\* ---------------------------------------------------------------- termination
\* Sessions nobody interrupts, in which every awaited call settles: the planning,
\* tool, cleanup and synthesis calls return or fail, and the steps between them are
\* taken. New queries may or may not be entered.
Settles ==
  \/ \E e \in ModelErrors : PlanCallFails(e) /\ UNCHANGED seen /\ UNCHANGED outerVars
  \/ pc = "Planning" /\ \E r \in EnvResponses : PlanCallReturns(r) /\ UNCHANGED outerVars
  \/ ValidateOk /\ UNCHANGED outerVars
  \/ ValidateFails /\ UNCHANGED seen /\ UNCHANGED outerVars
  \/ Dispatch /\ UNCHANGED outerVars
  \/ \E n \in SearchSizes : SearchReturns(n) /\ UNCHANGED outerVars
  \/ \E e \in ProviderErrors : SearchThrows(e) /\ UNCHANGED outerVars
  \/ \E n \in ContentLengths : FetchHTMLReturns(n) /\ UNCHANGED outerVars
  \/ \E e \in ProviderErrors : FetchHTMLThrows(e) /\ UNCHANGED outerVars
  \/ CleanupReturns /\ UNCHANGED outerVars
  \/ CleanupThrows /\ UNCHANGED outerVars
  \/ \E t \in HaikuTexts : HaikuReturns(t) /\ UNCHANGED outerVars
  \/ \E e \in ModelErrors : HaikuThrows(e) /\ UNCHANGED outerVars
  \/ \E t \in Answers : SynthesisReturns(t) /\ UNCHANGED outerVars
  \/ \E e \in ModelErrors : SynthesisFails(e) /\ UNCHANGED seen /\ UNCHANGED outerVars

NextLive ==
  \/ \E q \in Queries : ProcessQuery(q) /\ UNCHANGED outerVars
  \/ Settles

SpecLive == Init /\ [][NextLive]_vars /\ WF_vars(Settles)

\* ---------------------------------------------------------------- properties
DispatchPcs == {"Dispatching", "Search", "FetchHTML", "Cleanup", "Haiku"}

\* the workflow state a pc belongs to
Stage(p) == IF p \in DispatchPcs THEN "Dispatching" ELSE p

\* The (tool, argument) pairs of a plan, tools in order and arguments in order.
RECURSIVE Flatten(_, _)
Flatten(pl, i) ==
  IF i > Len(pl.tools) THEN <<>>
  ELSE LET p == ParamsOf(pl, i)
           own == IF Truthy(p) THEN [j \in 1..Len(p.items) |-> <<pl.tools[i], p.items[j]>>] ELSE <<>>
       IN own \o Flatten(pl, i + 1)

\* sum over the tools, in order, of the length of parameters[tool], missing counted as zero
RECURSIVE PlanCount(_, _)
PlanCount(pl, i) ==
  IF i > Len(pl.tools) THEN 0
  ELSE (IF pl.parameters[pl.tools[i]].kind = "array" THEN Len(pl.parameters[pl.tools[i]].items) ELSE 0)
       + PlanCount(pl, i + 1)

\* C1: once dispatching is over (synthesis awaited, or the run complete) the number of
\* ToolResults is the sum over `tools` of the length of parameters[tool]; repeated
\* arguments are each counted.
C1_ResultCount ==
  /\ pc = "Synthesizing" => Len(toolResults) = PlanCount(plan, 1)
  /\ pc = "Complete" => Len(returned.toolResults) = PlanCount(returned.plan, 1)

C1_Witness ==
  /\ pc = "Synthesizing"
  /\ plan.tools = <<"fetchUrl">>
  /\ plan.parameters["fetchUrl"].items = <<"a", "a">>
  /\ Len(toolResults) = 2

\* C2: at every moment the ToolResults are, position by position, the invocations of the
\* flattened Plan (tools in order, arguments in order), and the returned sequence is the
\* whole flattening.
C2_FlattenedOrder ==
  /\ LET f == Flatten(plan, 1)
     IN /\ Len(toolResults) <= Len(f)
        /\ \A k \in 1..Len(toolResults) : <<toolResults[k].tool, toolResults[k].arg>> = f[k]
  /\ pc = "Complete" =>
       [k \in 1..Len(returned.toolResults) |->
          <<returned.toolResults[k].tool, returned.toolResults[k].arg>>] = Flatten(returned.plan, 1)

C2_Witness ==
  /\ pc = "Complete"
  /\ returned.plan.tools = <<"webSearch", "fetchUrl">>
  /\ returned.plan.parameters["webSearch"].items = <<"a", " ">>
  /\ Len(returned.toolResults) = 3
  /\ returned.toolResults[1].tool = "webSearch" /\ returned.toolResults[1].arg = "a"
  /\ returned.toolResults[2].tool = "webSearch" /\ returned.toolResults[2].arg = " "
  /\ returned.toolResults[3].tool = "fetchUrl"

\* C3: a webSearch or fetchUrl call that fails is recorded, at the position of its
\* invocation, as an error ToolResult with the tool, the argument and the error's message;
\* the run goes on: by the time of synthesis every invocation of the Plan was made and
\* synthesis is called.
C3_FailureRecorded ==
  /\ (settled.failed /\ settled.tool \in {"webSearch", "fetchUrl"}) =>
       /\ settled.index <= Len(toolResults)
       /\ toolResults[settled.index].tool = settled.tool
       /\ toolResults[settled.index].arg = settled.arg
       /\ toolResults[settled.index].has = {"error"}
       /\ toolResults[settled.index].error =
            (IF settled.tool = "webSearch" THEN "Web search failed: " \o settled.message
             ELSE settled.message)
       /\ pc \in (DispatchPcs \cup {"Synthesizing", "Complete"})
  /\ pc \in {"Synthesizing", "Complete"} =>
       /\ invocations = Len(Flatten(plan, 1))
       /\ synthCalls = 1

C3_Witness ==
  /\ pc = "Synthesizing"
  /\ Len(toolResults) = 2
  /\ toolResults[1].tool = "webSearch" /\ toolResults[1].has = {"error"}
  /\ toolResults[1].error = "Web search failed: p1"
  /\ toolResults[2].tool = "webSearch" /\ toolResults[2].has = {"result"}

\* C4: no step leads from Dispatching to Error (Dispatching is left for Synthesizing, or
\* by the end of the process), and Error is entered only from Planning, Validating or
\* Synthesizing.
C4_NoErrorFromDispatching ==
  [][/\ Stage(pc) = "Dispatching" => Stage(pc') \in {"Dispatching", "Synthesizing", "Exited"}
     /\ (pc' = "Error" /\ pc # "Error") => pc \in {"Planning", "Validating", "Synthesizing"}]_vars

C4_Witness ==
  /\ pc = "Synthesizing"
  /\ Len(toolResults) = 2
  /\ toolResults[1].tool = "webSearch" /\ toolResults[1].has = {"error"}
  /\ toolResults[2].tool = "fetchUrl" /\ toolResults[2].has = {"error"}

\* C5: no generateHaiku ToolResult carries an error; when the haiku model call failed the
\* ToolResult is a success whose payload is the placeholder haiku.
C5_HaikuNeverFails ==
  /\ \A k \in 1..Len(toolResults) :
       toolResults[k].tool = "generateHaiku" =>
         toolResults[k].has = {"result"} /\ toolResults[k].error = Absent
  /\ (settled.failed /\ settled.tool = "generateHaiku") =>
       /\ settled.index <= Len(toolResults)
       /\ toolResults[settled.index].tool = "generateHaiku"
       /\ toolResults[settled.index].result.text = FallbackHaiku

C5_Witness ==
  /\ settled.failed
  /\ settled.tool = "generateHaiku"
  /\ pc = "Synthesizing"

\* C6: whenever no fetch is in flight, every engine created in the run has had
\* engine.cleanup called, once: the releases equal the fetchUrl invocations on every exit
\* path, the end of the process by Ctrl+C included.
C6_ReleasedOnEveryPath ==
  pc # "FetchHTML" => cleanupCalls = enginesCreated

\* C7: the planning call is made once per run; a run whose plan generation failed (model
\* call or schema validation) is in Error with no tool invocation, no engine and no
\* synthesis call made, and only schema-valid plans are ever dispatched.
C7_PlanFailureIsFatal ==
  /\ planCalls <= 1
  /\ failedAt \in {"Planning", "Validating"} =>
       /\ pc \in {"Error", "Exited"}
       /\ planCalls = 1
       /\ invocations = 0
       /\ enginesCreated = 0
       /\ synthCalls = 0
       /\ returned = NoReturn
  /\ pc \in (DispatchPcs \cup {"Synthesizing", "Complete"}) => plannerSchema(plan)

C7_Witness ==
  /\ pc = "Error"
  /\ failedAt = "Validating"
  /\ thrown = NoObjectError

\* C8: the synthesis call is made at most once per run; when it fails the run goes to
\* Error with every invocation of the Plan resolved, nothing returned to the caller and
\* an error printed; a run that completes returns the model's own answer.
C8_SynthesisFailureIsFatal ==
  /\ [](synthCalls <= 1)
  /\ [](failedAt = "Synthesizing" =>
          pc \in {"Error", "Exited"} /\ returned = NoReturn /\ synthCalls = 1 /\ printed = "error")
  /\ [][(pc = "Synthesizing" /\ pc' = "Error") =>
          /\ Len(toolResults) = Len(Flatten(plan, 1))
          /\ invocations = Len(toolResults)
          /\ cleanupCalls = enginesCreated
          /\ returned' = NoReturn
          /\ thrown' \in ModelErrors
          /\ failedAt' = "Synthesizing"]_vars
  /\ [][(pc = "Synthesizing" /\ pc' = "Complete") => returned'.response \in Answers]_vars

C8_Witness ==
  /\ pc = "Error"
  /\ failedAt = "Synthesizing"
  /\ invocations = 2
  /\ returned = NoReturn

C11_NoPartialAnswer ==
  cancelledIn \in DispatchPcs =>
    /\ pc = "Exited"
    /\ ~ENABLED Next
    /\ synthCalls = 0
    /\ synthesisPrompt = NoPrompt
    /\ returned = NoReturn
    /\ printed # "response"

\* cancelled while the second invocation of the run was in flight
C11_Witness ==
  /\ pc = "Exited"
  /\ cancelledIn \in {"Search", "FetchHTML", "Cleanup", "Haiku"}
  /\ invocations >= 2

\* the results recorded for tool t
ResultsOf(t) == {k \in 1..Len(toolResults) : toolResults[k].tool = t}

\* how often t is listed in the plan's tools
Occurrences(pl, t) == Cardinality({i \in 1..Len(pl.tools) : pl.tools[i] = t})

\* the listed tools of the plan with no parameters entry or an empty one
Skipped(pl) ==
  {pl.tools[i] : i \in {n \in 1..Len(pl.tools) : ~Truthy(ParamsOf(pl, n)) \/ ParamsOf(pl, n).items = <<>>}}

\* C12: when the plan lists a tool with no parameters entry or an empty one, the run
\* still gets through dispatching; at synthesis that tool has no result, every
\* executor called left one result, and each other tool has one result per argument
\* and occurrence. While dispatching, the invocation in flight is never for such a tool.
C12_EmptyEntrySkipped ==
  Skipped(plan) # {} =>
    /\ pc \in {"Search", "FetchHTML", "Cleanup", "Haiku"} => plan.tools[ti] \notin Skipped(plan)
    /\ pc = "Error" => failedAt # "Dispatching"
    /\ pc \in {"Synthesizing", "Complete"} =>
         /\ \A t \in Skipped(plan) : ResultsOf(t) = {}
         /\ invocations = Len(toolResults)
         /\ \A t \in ToolIds \ Skipped(plan) :
              Cardinality(ResultsOf(t)) = Occurrences(plan, t) * Len(plan.parameters[t].items)

\* a run completed whose plan lists a skipped tool first and a tool with results after it
C12_Witness ==
  /\ pc = "Complete"
  /\ Len(plan.tools) = 2
  /\ plan.tools[1] \in Skipped(plan)
  /\ ~Truthy(ParamsOf(plan, 1))
  /\ ResultsOf(plan.tools[2]) # {}

\* the tools with a non-empty parameters entry that the plan's tools do not list
Unlisted(pl) ==
  {t \in ToolIds : Occurrences(pl, t) = 0 /\ Truthy(pl.parameters[t]) /\ pl.parameters[t].items # <<>>}

\* the executor whose external call a pc waits for
ExecutorAt(p) ==
  CASE p = "Search" -> "webSearch"
    [] p \in {"FetchHTML", "Cleanup"} -> "fetchUrl"
    [] p = "Haiku" -> "generateHaiku"

\* C13: a tool named only in `parameters` (non-empty entry, absent from `tools`) is
\* never invoked: no call of its executor is in flight, no result carries its name,
\* and the executors called are no more than the plan's listed (tool, argument) pairs.
C13_UnlistedNeverInvoked ==
  \A t \in Unlisted(plan) :
    /\ pc \in {"Search", "FetchHTML", "Cleanup", "Haiku"} => ExecutorAt(pc) # t
    /\ ResultsOf(t) = {}
    /\ invocations <= PlanCount(plan, 1)

\* a run completed with results of a listed tool while another tool had arguments only
C13_Witness ==
  /\ pc = "Complete"
  /\ Unlisted(plan) # {}
  /\ toolResults # <<>>

\* C14: a validated plan with no tools goes from dispatching straight to synthesis:
\* no executor is called, no result exists, the synthesis call is made exactly once
\* with an empty result sequence, it can return, and when it does the run is
\* complete with that answer and an empty toolResults.
C14_EmptyPlanStillAnswers ==
  (plan.has = PlanFields /\ plan.tools = <<>>) =>
    /\ pc \in {"Dispatching", "Synthesizing", "Complete"}
    /\ toolResults = <<>>
    /\ invocations = 0
    /\ pc = "Dispatching" => synthCalls = 0 /\ ENABLED Dispatch
    /\ pc = "Synthesizing" =>
         /\ synthCalls = 1
         /\ synthesisPrompt.toolResults = <<>>
         /\ \A t \in Answers : ENABLED SynthesisReturns(t)
    /\ pc = "Complete" =>
         /\ synthCalls = 1
         /\ returned.response \in Answers
         /\ returned.toolResults = <<>>
         /\ printed = "response"

\* a run with an empty tools sequence completed with an answer
C14_Witness ==
  /\ pc = "Complete"
  /\ plan.has = PlanFields
  /\ plan.tools = <<>>
  /\ returned.response \in Answers

\* C15: no synthesis call is made and no prompt exists while dispatching; when the
\* synthesis call is awaited every planned invocation has left its result (no call
\* and no engine outstanding) and the prompt embeds exactly toolResults; toolResults
\* is still that sequence when the run is complete, and it is the one returned.
C15_SealedBeforeSynthesis ==
  /\ pc \in DispatchPcs => synthCalls = 0 /\ synthesisPrompt = NoPrompt
  /\ pc = "Synthesizing" =>
       /\ Len(toolResults) = PlanCount(plan, 1)
       /\ invocations = Len(toolResults)
       /\ cleanupCalls = enginesCreated
       /\ fetched = NoFetch
       /\ synthesisPrompt.toolResults = toolResults
  /\ pc = "Complete" =>
       /\ toolResults = synthesisPrompt.toolResults
       /\ returned.toolResults = synthesisPrompt.toolResults
       /\ Len(returned.toolResults) = PlanCount(plan, 1)

\* a run completed that returned two results, the last one of a fetch
C15_Witness ==
  /\ pc = "Complete"
  /\ Len(returned.toolResults) = 2
  /\ returned.toolResults[2].tool = "fetchUrl"
  /\ synthesisPrompt.toolResults = returned.toolResults

\* a ToolResult names its tool and its argument and has exactly one of result and error
WellFormed(r) ==
  /\ r.tool \in ToolIds
  /\ r.arg \in Args
  /\ r.has \in {{"result"}, {"error"}}
  /\ r.has = {"result"} => r.error = Absent
  /\ r.has = {"error"} => r.error # Absent /\ r.result = NoPayload

IsPrefix(s, t) == Len(s) <= Len(t) /\ \A k \in 1..Len(s) : t[k] = s[k]

\* C16: after every step each ToolResult has its tool, its argument and exactly one of
\* a result and an error; and while a run goes on (dispatching, synthesis, completion)
\* a step leaves every result already pushed as it is: toolResults only grows at its end.
C16_ExactlyOneOutcome ==
  [][/\ \A k \in 1..Len(toolResults') : WellFormed(toolResults'[k])
     /\ \A k \in 1..Len(returned'.toolResults) : WellFormed(returned'.toolResults[k])
     /\ (Stage(pc) \in {"Dispatching", "Synthesizing"} /\ Stage(pc') \in {"Dispatching", "Synthesizing", "Complete"})
          => IsPrefix(toolResults, toolResults')]_vars

\* a run completed with a success and an error among its results, in that order
C16_Witness ==
  /\ pc = "Complete"
  /\ Len(toolResults) = 3
  /\ toolResults[1].has = {"result"}
  /\ toolResults[2].has = {"error"}
  /\ toolResults[2].tool = "fetchUrl"

\* the steps of a run from one workflow state to the next, and the failures
StageOrder ==
  {<<"Idle", "Planning">>, <<"Planning", "Validating">>, <<"Validating", "Dispatching">>,
   <<"Dispatching", "Synthesizing">>, <<"Synthesizing", "Complete">>}

StageFailure == {<<"Planning", "Error">>, <<"Validating", "Error">>, <<"Synthesizing", "Error">>}

\* the external calls made for the current query
Calls == <<planCalls, synthCalls, invocations, enginesCreated, cleanupCalls>>

\* C17: a step that changes the workflow state of a run takes it to the next state of
\* Idle, Planning, Validating, Dispatching, Synthesizing, Complete, or to Error. In
\* Complete and in Error the run makes no call: the only steps are a new query, which
\* starts another run at its planning call with no tool or synthesis call made, and
\* the end of the process.
C17_StageOrder ==
  [][/\ (Stage(pc) # Stage(pc') /\ pc \notin {"Complete", "Error"} /\ pc' # "Exited")
          => <<Stage(pc), Stage(pc')>> \in StageOrder \cup StageFailure
     /\ pc \in {"Complete", "Error"}
          => \/ pc' = "Planning" /\ Calls' = <<1, 0, 0, 0, 0>> /\ toolResults' = <<>>
             \/ pc' = "Exited" /\ Calls' = Calls]_vars

\* a run at Complete with tool calls made, after all six states
C17_Witness ==
  /\ pc = "Complete"
  /\ planCalls = 1
  /\ synthCalls = 1
  /\ invocations >= 1

\* everything a run of agenticWorkflow and processQuery reads or writes
RunState ==
  <<raw, plan, ti, ai, toolResults, fetched, synthesisPrompt, returned, thrown, printed,
    planCalls, synthCalls, invocations, enginesCreated, cleanupCalls, failedAt, settled>>

\* that state when the planning call of the first query of a session is awaited
FreshRunState ==
  <<NoPlan, NoPlan, 1, 1, <<>>, NoFetch, NoPrompt, NoReturn, NoErr, "nothing",
    1, 0, 0, 0, 0, "none", NoCall>>

C19_PlanNeverMutated ==
  [][/\ planCalls' <= 1
     /\ (pc = "Validating" /\ pc' = "Dispatching") => plan' = raw
     /\ (Stage(pc) \in {"Dispatching", "Synthesizing"} /\ Stage(pc') \in {"Dispatching", "Synthesizing", "Complete"})
          => plan' = plan
     /\ pc' \in {"Synthesizing", "Complete"}
          => /\ synthesisPrompt'.reasoning = plan'.reasoning
             /\ synthesisPrompt'.expectedWorkflow = plan'.expectedWorkflow
     /\ pc' = "Complete" => returned'.plan = plan']_vars

\* a run completed after two invocations, returning the plan with both arguments listed
C19_Witness ==
  /\ pc = "Complete"
  /\ Len(toolResults) = 2
  /\ returned.plan.has = PlanFields
  /\ PlanCount(returned.plan, 1) = 2
  /\ synthesisPrompt.expectedWorkflow = returned.plan.expectedWorkflow

\* a response with a tool outside the three, without one of the four fields, or with
\* a parameters value that is present and not an array of strings
NonConformant(r) ==
  \/ \E i \in 1..Len(r.tools) : r.tools[i] \notin {"webSearch", "fetchUrl", "generateHaiku"}
  \/ \E f \in {"reasoning", "tools", "parameters", "expectedWorkflow"} : f \notin r.has
  \/ \E t \in DOMAIN r.parameters : r.parameters[t].kind \in {"notArray", "arrayOfOther"}

\* C20: a non-conformant response under the schema check cannot become the plan, the
\* check can only fail; the failure is the schema error with no executor and no
\* synthesis call made; and the plan of every run that dispatches, synthesises or
\* completes has the four fields, tools of the three only and arrays of strings.
C20_NonConformantRejected ==
  /\ (pc = "Validating" /\ NonConformant(raw)) =>
       ~ENABLED ValidateOk /\ ENABLED (ValidateFails /\ UNCHANGED seen)
  /\ (pc = "Error" /\ failedAt = "Validating") =>
       thrown = NoObjectError /\ invocations = 0 /\ synthCalls = 0 /\ returned = NoReturn
  /\ pc \in DispatchPcs \cup {"Synthesizing", "Complete"} =>
       /\ ~NonConformant(plan)
       /\ \A i \in 1..Len(plan.tools) : plan.tools[i] \in ToolIds
       /\ \A k \in 1..Len(toolResults) : toolResults[k].tool \in ToolIds

\* a response was rejected by the schema check
C20_Witness ==
  /\ pc = "Error"
  /\ failedAt = "Validating"
  /\ thrown = NoObjectError

\* C21: the plan of every run past the schema check has a non-empty reasoning, and a
\* response with the empty string as reasoning under the check cannot become the plan.
C21_ReasoningNonEmpty ==
  /\ pc \in DispatchPcs \cup {"Synthesizing", "Complete"} => plan.reasoning # ""
  /\ (pc = "Validating" /\ raw.reasoning = "") => ~ENABLED ValidateOk

\* the webSearch call that settled last returned a result list
SearchSettled == settled.tool = "webSearch" /\ ~settled.failed /\ settled.index \in 1..Len(toolResults)

FetchSettled == settled.tool = "fetchUrl" /\ ~settled.failed /\ settled.index \in 1..Len(toolResults)

\* C23: when fetchUrl returned content of n characters, the ToolResult is a success
\* whose content is the characters 0 .. min(2000, n) - 1 of it and whose contentLength is n.
C23_ContentTruncated ==
  FetchSettled =>
    LET r == toolResults[settled.index]
        n == settled.provided
    IN /\ r.tool = "fetchUrl"
       /\ r.has = {"result"}
       /\ r.result.content = [from |-> 0, to |-> (IF n < 2000 THEN n ELSE 2000)]
       /\ r.result.contentLength = n

\* content longer than the bound was fetched and cut
C23_Witness ==
  /\ FetchSettled
  /\ settled.provided = 2001
  /\ toolResults[settled.index].result.content.to = 2000
  /\ toolResults[settled.index].result.contentLength = 2001

\* the results of run record r are, in order, for the first (tool, argument) pairs of its own plan
OwnResults(r) ==
  /\ Len(r.toolResults) <= Len(Flatten(r.plan, 1))
  /\ \A i \in 1..Len(r.toolResults) :
       <<r.toolResults[i].tool, r.toolResults[i].arg>> = Flatten(r.plan, 1)[i]

\* C24: with several runs in flight and their steps interleaved, after every step the
\* results of each run are results for the invocations of its own plan, in its order,
\* and a step changes the record (plan, position, results, output) of one run at most.
C24_RunsOwnTheirResults ==
  [][/\ \A k \in 1..Len(runs') : OwnResults(runs'[k])
     /\ Cardinality({k \in 1..Len(runs) : runs'[k] # runs[k]}) <= 1]_vars

\* two runs with different plans in flight together, each with a result gathered
C24_Witness ==
  /\ Len(runs) = 2
  /\ InFlight(1) /\ InFlight(2)
  /\ runs[1].toolResults # <<>> /\ runs[2].toolResults # <<>>
  /\ runs[1].plan # runs[2].plan
  /\ runs[2].pc = "Search"

\* the lines typed that are an exit command in some letter case with whitespace
\* around it, and those that are empty or whitespace only
ExitLines == {<<" ", "E", "X", "I", "T">>, <<"Q", "u", "i", "t", " ">>, <<"b", "y", "e">>, <<"\t", "q", " ">>}
BlankLines == {<<>>, <<" ", "\t">>}

\* C25: the step that handles a line which is an exit command ends the process with
\* status 0 and starts no run; the step that handles an empty or whitespace-only
\* line starts no run either and leaves the process running.
C25_ExitAndBlankLines ==
  [][lines'.count = lines.count + 1 =>
       /\ lines'.last \in ExitLines => exitCode' = 0 /\ runs' = runs
       /\ lines'.last \in BlankLines => exitCode' = -1 /\ runs' = runs]_vars

\* the session was ended by "Quit " while a run was there
C25_Witness ==
  /\ exitCode = 0
  /\ lines.last = <<"Q", "u", "i", "t", " ">>
  /\ lines.count = 3
  /\ Len(runs) = 1

\* C26: at most one run of agenticWorkflow is in flight at any time.
C26_OneRunInFlight ==
  Cardinality({k \in 1..Len(runs) : InFlight(k)}) <= 1

\* C27: every query gets its response or its error printed. The process makes no
\* step after it has exited, so once an exit command has ended it every run started
\* before must have printed one of the two.
C27_EveryQueryAnswered ==
  (exitCode = 0 /\ lines.last \in ExitLines) =>
    \A k \in 1..Len(runs) : runs[k].out \in {"response", "error"}

\* the number of results due before the block of the i-th entry of tools
RECURSIVE Offset(_, _)
Offset(pl, i) ==
  IF i <= 1 THEN 0
  ELSE Offset(pl, i - 1) + (IF Truthy(ParamsOf(pl, i - 1)) THEN Len(ParamsOf(pl, i - 1).items) ELSE 0)

Repeated(pl) == {t \in ToolIds : Occurrences(pl, t) >= 2}

\* C28: when the plan lists a tool more than once, then once dispatching is over each
\* occurrence has its own block of results, one per argument of the tool's list in
\* order, at the place of that occurrence among the blocks; so the tool has as many
\* results as its occurrences times the length of its list.
C28_DispatchedPerOccurrence ==
  (pc \in {"Synthesizing", "Complete"} /\ Repeated(plan) # {}) =>
    /\ \A i \in 1..Len(plan.tools) : \A j \in 1..Len(ParamsOf(plan, i).items) :
         /\ Offset(plan, i) + j <= Len(toolResults)
         /\ toolResults[Offset(plan, i) + j].tool = plan.tools[i]
         /\ toolResults[Offset(plan, i) + j].arg = ParamsOf(plan, i).items[j]
    /\ \A t \in Repeated(plan) :
         Cardinality(ResultsOf(t)) = Occurrences(plan, t) * Len(plan.parameters[t].items)

\* a run completed that listed generateHaiku twice and has two results for its one prompt
C28_Witness ==
  /\ pc = "Complete"
  /\ plan.tools = <<"generateHaiku", "generateHaiku">>
  /\ Len(plan.parameters["generateHaiku"].items) = 1
  /\ Len(toolResults) = 2

\* C29: while an executor's call is awaited it is the only call outstanding: every
\* executor called before has its result in toolResults, and the call is the one for
\* the next pair of the flattened order; when none is awaited, every call made has
\* its result.
C29_OneInvocationAtATime ==
  /\ pc \in {"Search", "FetchHTML", "Cleanup", "Haiku"} =>
       /\ invocations = Len(toolResults) + 1
       /\ <<plan.tools[ti], CurArg>> = Flatten(plan, 1)[invocations]
  /\ pc \in {"Dispatching", "Synthesizing", "Complete"} => invocations = Len(toolResults)

\* the third invocation of a run is awaited with two results appended
C29_Witness ==
  /\ pc \in {"Search", "FetchHTML", "Cleanup", "Haiku"}
  /\ invocations = 3
  /\ Len(toolResults) = 2

\* the engines constructed whose cleanup() has not settled yet
LiveEngines == enginesCreated - cleanupCalls + (IF pc = "Cleanup" THEN 1 ELSE 0)

\* C30: in a run of the living process an engine is live exactly while a fetchUrl call
\* is awaited (fetchHTML or cleanup pending), and then it is the only one: when a
\* result is appended and the next invocation starts, every engine's cleanup has
\* settled. Each fetchUrl call constructs its own engine.
C30_OneEngineLive ==
  pc \in DispatchPcs \cup {"Synthesizing", "Complete"} =>
    /\ LiveEngines = (IF pc \in {"FetchHTML", "Cleanup"} THEN 1 ELSE 0)
    /\ enginesCreated =
         Cardinality(ResultsOf("fetchUrl")) + (IF pc \in {"FetchHTML", "Cleanup"} THEN 1 ELSE 0)

\* the second fetch of a run is under way with the engine of the first released
C30_Witness ==
  /\ pc = "FetchHTML"
  /\ enginesCreated = 2
  /\ cleanupCalls = 1
  /\ Cardinality(ResultsOf("fetchUrl")) = 1

\* C31: when fetchHTML has resolved, the result the dispatcher appends for that fetchUrl
\* call is a success, whether engine.cleanup() then resolves or rejects.
C31_CleanupFailureKeepsSuccess ==
  [][(pc = "Cleanup" /\ fetched.ok /\ Len(toolResults') = Len(toolResults) + 1)
       => toolResults'[Len(toolResults')].has = {"result"}]_vars

\* C32: the result of a successful webSearch call whose provider list had n items holds
\* min(3, n) items, and its i-th item is the i-th item of the provider list.
C32_FirstItemsInProviderOrder ==
  SearchSettled =>
    LET items == toolResults[settled.index].result.items
    IN  /\ Len(items) = Min(TopResults, settled.provided)
        /\ \A i \in 1..Len(items) : items[i] = i
        /\ toolResults[settled.index].has = {"result"}

\* a provider list of four items gave a result of the first three
C32_Witness ==
  /\ SearchSettled
  /\ settled.provided = 4
  /\ toolResults[settled.index].result.items = <<1, 2, 3>>

\* the clamp into [MinResults, MaxResults], spelled out
Clamped(n) == IF n < MinResults THEN MinResults ELSE IF n > MaxResults THEN MaxResults ELSE n

\* C33: whenever webSearch calls the provider it asks for between 3 and 5 items: the
\* numResults option, accepted from 1 to 100, clamped into that range, and 5 when no
\* options or no numResults option is given; the dispatcher's calls ask for 5.
C33_RequestedBetween3And5 ==
  /\ ws.providerCalls > 0 =>
       /\ ws.requested \in 3..5
       /\ "numResults" \in ws.options.has =>
            ws.options.numResults \in 1..100 /\ ws.requested = Clamped(ws.options.numResults)
       /\ "numResults" \notin ws.options.has => ws.requested = 5
  /\ (settled.tool = "webSearch" /\ settled.requested # 0) => settled.requested = 5

\* the provider is asked for 5 items under the option numResults = 100
C33_Witness ==
  /\ ws.pc = "Provider"
  /\ ws.options.numResults = 100
  /\ ws.requested = 5

\* process.env["EXA_API_KEY"] is missing or empty
NoApiKey == env.EXA_API_KEY \in {Unset, ""}
Blank(q) == q \in {"", " "}

\* C34: webSearch called with a blank query, or without an EXA_API_KEY, throws without
\* having called the provider; the dispatcher awaits the provider only for a query
\* that is not blank and with the key set, records an error result under the query for
\* every other webSearch invocation, and goes on: when the loop is over every
\* invocation of the plan has its result.
C34_FailsBeforeProviderCall ==
  /\ (ws.pc # "none" /\ (Blank(ws.query) \/ NoApiKey)) =>
       ws.pc = "Thrown" /\ ws.providerCalls = 0 /\ ws.message # NoErr
  /\ pc = "Search" => ~Blank(CurArg) /\ ~NoApiKey
  /\ \A k \in 1..Len(toolResults) :
       (toolResults[k].tool = "webSearch" /\ (Blank(toolResults[k].arg) \/ NoApiKey)) =>
         /\ toolResults[k].has = {"error"}
         /\ toolResults[k].arg = Flatten(plan, 1)[k][2]
         /\ toolResults[k].error =
              (IF Blank(toolResults[k].arg) THEN WebSearchFailed("Search query cannot be empty")
               ELSE IF env.EXA_API_KEY = Unset THEN ValidationError("Required")
               ELSE ValidationError("EXA_API_KEY is required"))
  /\ pc \in {"Synthesizing", "Complete"} => Len(toolResults) = Len(Flatten(plan, 1))
  /\ pc = "Error" => failedAt # "Dispatching"

\* without the key a run of two searches completed, both recorded as errors
C34_Witness ==
  /\ pc = "Complete"
  /\ env.EXA_API_KEY = ""
  /\ Len(toolResults) = 2
  /\ \A k \in 1..2 : toolResults[k].tool = "webSearch" /\ toolResults[k].has = {"error"}
  /\ toolResults[1].arg = "a"

\* C36: the prompt of the planning request holds the query and the date of the day,
\* whatever the query.
C36_PromptEmbedsDate ==
  pc \in {"Planning", "Validating"} =>
    /\ \E i \in 1..Len(planRequest) : planRequest[i] = env.today
    /\ \E i \in 1..Len(planRequest) : planRequest[i] = userQuery

\* the planning request of a query without temporal language is under way
C36_Witness ==
  /\ pc = "Planning"
  /\ userQuery \notin TemporalQueries
  /\ env.today = "5 November 2026"
  /\ \E i \in 1..Len(planRequest) : planRequest[i] = "5 November 2026"

\* the awaits and steps of a run of agenticWorkflow
RunPcs == {"Planning", "Validating", "Synthesizing"} \cup DispatchPcs

\* C35: a run whose awaited calls all settle ends: from every point of a run the
\* workflow reaches Complete or Error.
C35_RunTerminates == (pc \in RunPcs) ~> (pc \in {"Complete", "Error"})

\* a run of two invocations has ended with its answer
C35_Witness ==
  /\ pc = "Complete"
  /\ invocations = 2
  /\ planCalls = 1
  /\ synthCalls = 1

\* no two stored users share an id
DistinctIds == \A i, j \in 1..Len(users) : i # j => users[i].id # users[j].id

\* C37: every call of create_user, update_user and delete_user leaves the stored users
\* with distinct ids, and a create_user call rejected by validation leaves the array
\* and the id counter as they were.
C37_DistinctIds ==
  [][/\ DistinctIds'
     /\ (reply'.op = "create_user" /\ ~reply'.success) => (users' = users /\ nextId' = nextId)
     /\ (reply'.op = "create_user" /\ reply'.success) =>
          /\ users' = Append(users, reply'.data)
          /\ reply'.data.id = toString(nextId)
          /\ nextId' = nextId + 1]_vars

\* two users are stored and the last create_user call was rejected
C37_Witness ==
  /\ Len(users) = 2
  /\ users[1].id = <<"1">>
  /\ users[2].id = <<"2">>
  /\ nextId = 3
  /\ reply.op = "create_user"
  /\ ~reply.success

\* what validateUserData requires of a user's names and email
ValidUser(u) ==
  /\ trim(u.firstName) # <<>>
  /\ trim(u.lastName) # <<>>
  /\ validateEmail(u.email)

\* C38: every stored user has a non-empty first name, a non-empty last name and an
\* email of valid format.
C38_StoredUsersValid == \A i \in 1..Len(users) : ValidUser(users[i])

\* the fields of a user that delete_user is to leave alone
Kept(u) == [u EXCEPT !.isActive = FALSE, !.updatedAt = 0]

\* C39: no call removes a user or shortens the array; a delete_user(id) that succeeds
\* changes the array only at that user, who can still be got by id, is inactive and
\* has every field but isActive and updatedAt as before; a delete_user of an unknown
\* id returns an error and changes nothing.
C39_SoftDelete ==
  [][/\ Len(users') >= Len(users)
     /\ \A i \in 1..Len(users) : \E j \in 1..Len(users') : users'[j].id = users[i].id
     /\ reply'.op = "delete_user" =>
          LET id == reply'.request.id
              before == get_user_by_id(users, id)
              after == get_user_by_id(users', id)
          IN /\ reply'.success = before.success
             /\ before.success =>
                  /\ after.success
                  /\ after.data = reply'.data
                  /\ ~after.data.isActive
                  /\ Kept(after.data) = Kept(before.data)
                  /\ Len(users') = Len(users)
                  /\ \A k \in 1..Len(users) : users[k].id # id => users'[k] = users[k]
             /\ ~before.success =>
                  /\ reply'.error = "User not found"
                  /\ users' = users
             /\ nextId' = nextId]_vars

\* the first of two users was deleted and is still stored, inactive
C39_Witness ==
  /\ reply.op = "delete_user"
  /\ reply.success
  /\ Len(users) = 2
  /\ ~users[1].isActive
  /\ users[2].isActive

====
